---- MODULE Spec2Model ----
(***************************************************************************)
(* State-machine model of the meetingology IRC meeting bot: the Meeting    *)
(* session (src/meeting.py), its minute items (src/items.py) and the      *)
(* writers that render the minutes (src/writers.py).                       *)
(*                                                                         *)
(* Python str values are modelled as sequences of one-character strings,   *)
(* so that the regular expressions, splits and formatting of the source   *)
(* are computed character by character.  Python dicts are modelled as     *)
(* sequences of <<key, value>> pairs in insertion order.                   *)
(***************************************************************************)
EXTENDS Integers, Sequences, FiniteSets, TLC

VARIABLES
    M,      \* the Meeting object: its attributes, and the effects of its callbacks
    msg,    \* the IRC message the plugin handled last
    pass,   \* position of a ReST render pass that is under way (ReST.format)
    replay, \* the transcript Meeting.process_meeting reads, and its position in it
    meeting_cache   \* the registry of plugin.py, (channel, network) -> Meeting; the
                    \* specifications that follow the one session M leave it empty

vars == <<M, msg, pass, replay, meeting_cache>>

-----------------------------------------------------------------------------
(* Bounds of the model *)

\* lines submitted to a live session before the model stops extending it
MaxLines == 2
\* lines submitted by the chair in the minutes-only specification
MaxItemLines == 4
\* lines submitted while a vote round is open in the vote specification
MaxBallots == 4
\* items by one nick in one minute in the reference-allocation specification
MaxSame == 680
\* length of the mixed item sequences of the reference-allocation specification
MaxMixed == 3
\* render passes over one session in the reference-allocation specification
MaxPasses == 2
\* lines after '#startmeeting' in a replayed transcript
MaxReplay == 3
\* lines submitted to the session of the roles specification
MaxRoleLines == 3
\* lines submitted to the session of the save specification
MaxSaveLines == 3
\* lines submitted to the session of the rounds specification
MaxRoundLines == 3
\* lines submitted to the session of the margin specification
MaxMarginLines == 3
\* lines submitted to the session of the unknown-command specification
MaxUnknownLines == 3
\* lines submitted to the session of the action-listing specification
MaxActionLines == 4
\* lines submitted to the session of the template specification
MaxTemplateLines == 4
\* transcript lines of all registered sessions together in the registry specification
MaxCacheLines == 3
\* most transcript lines of all sessions of the registry in SpecEvict
MaxEvictLines == 3
\* most transcript entries of a session of SpecEnd beyond the first
MaxEndLines == 4
\* most transcript entries of a session of SpecRoster beyond the first
MaxRosterLines == 3
\* most transcript entries of a session of SpecRaw beyond the first
MaxRawLines == 3
\* most lines of a transcript of SpecTwice after its first
MaxTwice == 3
\* most transcript entries of a session of SpecProposal beyond the first
MaxProposalLines == 3
\* most transcript entries of a session of SpecAgain beyond the first
MaxAgainLines == 4
\* most transcript entries of a session of SpecLive beyond the first
MaxLiveLines == 3
\* most transcript entries of a session of SpecTopic beyond the first
MaxTopicLines == 3

-----------------------------------------------------------------------------
(* Text *)

Lowercase == <<"a", "b", "c", "d", "e", "f", "g", "h", "i", "j", "k", "l", "m",
               "n", "o", "p", "q", "r", "s", "t", "u", "v", "w", "x", "y", "z">>
Uppercase == <<"A", "B", "C", "D", "E", "F", "G", "H", "I", "J", "K", "L", "M",
               "N", "O", "P", "Q", "R", "S", "T", "U", "V", "W", "X", "Y", "Z">>
Digits == <<"0", "1", "2", "3", "4", "5", "6", "7", "8", "9">>

Range(s) == {s[i] : i \in DOMAIN s}
Min(S) == CHOOSE x \in S : \A y \in S : x <= y
Max(S) == CHOOSE x \in S : \A y \in S : x >= y

\* \w of the re module
IsWord(c) == c \in Range(Lowercase) \cup Range(Uppercase) \cup Range(Digits) \cup {"_"}
\* \s of the re module, and the characters str.strip() removes
IsSpace(c) == c \in {" ", "\t"}
IsDigit(c) == c \in Range(Digits)
DigitValue(c) == (CHOOSE i \in DOMAIN Digits : Digits[i] = c) - 1

\* str.lower()
LowerChar(c) ==
    IF c \in Range(Uppercase)
    THEN Lowercase[CHOOSE i \in DOMAIN Uppercase : Uppercase[i] = c]
    ELSE c
lower(s) == [i \in DOMAIN s |-> LowerChar(s[i])]

\* s[i:] and s[:n] for 1-based i
From(s, i) == SubSeq(s, i, Len(s))
Upto(s, n) == SubSeq(s, 1, IF n > Len(s) THEN Len(s) ELSE n)

\* str.strip(), str.lstrip() and str.rstrip() without arguments
NonSpace(s) == {i \in DOMAIN s : ~IsSpace(s[i])}
strip(s) == IF NonSpace(s) = {} THEN <<>> ELSE SubSeq(s, Min(NonSpace(s)), Max(NonSpace(s)))
lstrip(s) == IF NonSpace(s) = {} THEN <<>> ELSE From(s, Min(NonSpace(s)))
rstrip(s) == IF NonSpace(s) = {} THEN <<>> ELSE SubSeq(s, 1, Max(NonSpace(s)))

\* str.strip(chars): remove leading and trailing characters that are in chars
stripChars(s, chars) ==
    LET keep == {i \in DOMAIN s : s[i] \notin chars}
    IN IF keep = {} THEN <<>> ELSE SubSeq(s, Min(keep), Max(keep))

\* sub in s; 1-based index of the first occurrence of sub in s, 0 if none
Occurrences(s, sub) ==
    {i \in 1..(Len(s) - Len(sub) + 1) : SubSeq(s, i, i + Len(sub) - 1) = sub}
Contains(s, sub) == Occurrences(s, sub) # {}
Find(s, sub) == IF Contains(s, sub) THEN Min(Occurrences(s, sub)) ELSE 0

\* s.split(sep)[0] and the rest after the first sep
SplitHead(s, sep) == IF Contains(s, sep) THEN SubSeq(s, 1, Find(s, sep) - 1) ELSE s

\* \b after position i-1, when s[i-1] is a word character
Boundary(s, i) == IF i > Len(s) THEN TRUE ELSE ~IsWord(s[i])

s_startmeeting == <<"s", "t", "a", "r", "t", "m", "e", "e", "t", "i", "n", "g">>
s_endmeeting == <<"e", "n", "d", "m", "e", "e", "t", "i", "n", "g">>
s_abortmeeting == <<"a", "b", "o", "r", "t", "m", "e", "e", "t", "i", "n", "g">>
s_replay == <<"r", "e", "p", "l", "a", "y">>
s_topic == <<"t", "o", "p", "i", "c">>
s_subtopic == <<"s", "u", "b", "t", "o", "p", "i", "c">>
s_progress == <<"p", "r", "o", "g", "r", "e", "s", "s">>
s_meetingtopic == <<"m", "e", "e", "t", "i", "n", "g", "t", "o", "p", "i", "c">>
s_save == <<"s", "a", "v", "e">>
s_done == <<"d", "o", "n", "e">>
s_agreed == <<"a", "g", "r", "e", "e", "d">>
s_agree == <<"a", "g", "r", "e", "e">>
s_accepted == <<"a", "c", "c", "e", "p", "t", "e", "d">>
s_accept == <<"a", "c", "c", "e", "p", "t">>
s_rejected == <<"r", "e", "j", "e", "c", "t", "e", "d">>
s_reject == <<"r", "e", "j", "e", "c", "t">>
s_chair == <<"c", "h", "a", "i", "r">>
s_unchair == <<"u", "n", "c", "h", "a", "i", "r">>
s_undo == <<"u", "n", "d", "o">>
s_restrictlogs == <<"r", "e", "s", "t", "r", "i", "c", "t", "l", "o", "g", "s">>
s_lurk == <<"l", "u", "r", "k">>
s_unlurk == <<"u", "n", "l", "u", "r", "k">>
s_meetingname == <<"m", "e", "e", "t", "i", "n", "g", "n", "a", "m", "e">>
s_vote == <<"v", "o", "t", "e">>
s_votesrequired == <<"v", "o", "t", "e", "s", "r", "e", "q", "u", "i", "r", "e", "d">>
s_endvote == <<"e", "n", "d", "v", "o", "t", "e">>
s_voters == <<"v", "o", "t", "e", "r", "s">>
s_private_commands == <<"p", "r", "i", "v", "a", "t", "e", "_", "c", "o", "m", "m", "a", "n", "d", "s">>
s_action == <<"a", "c", "t", "i", "o", "n">>
s_info == <<"i", "n", "f", "o">>
s_idea == <<"i", "d", "e", "a">>
s_help == <<"h", "e", "l", "p">>
s_halp == <<"h", "a", "l", "p">>
s_nick == <<"n", "i", "c", "k">>
s_link == <<"l", "i", "n", "k">>
s_commands == <<"c", "o", "m", "m", "a", "n", "d", "s">>
s_ACTION == <<"A", "C", "T", "I", "O", "N">>
s_meeting == <<"m", "e", "e", "t", "i", "n", "g">>
s_Carried == <<"C", "a", "r", "r", "i", "e", "d">>
s_Denied == <<"D", "e", "n", "i", "e", "d">>
s_Deadlock == <<"D", "e", "a", "d", "l", "o", "c", "k">>

s_sepTopic == <<" ", "|", " ">>
s_spMeeting == <<" ", "m", "e", "e", "t", "i", "n", "g">>
s_sepCurrent == <<" ", "|", " ", "C", "u", "r", "r", "e", "n", "t", " ", "t", "o", "p", "i", "c", ":", " ">>
s_slashes == <<"/", "/">>
\* the character \x01 that brackets a CTCP ACTION
SOH == "\\x01"

-----------------------------------------------------------------------------
(* Python dict: <<key, value>> pairs in insertion order *)

DictKeys(d) == {d[i][1] : i \in DOMAIN d}
DictHas(d, k) == k \in DictKeys(d)
DictGet(d, k, default) ==
    IF DictHas(d, k) THEN d[CHOOSE i \in DOMAIN d : d[i][1] = k][2] ELSE default
DictSet(d, k, v) ==
    IF DictHas(d, k)
    THEN [i \in DOMAIN d |-> IF d[i][1] = k THEN <<k, v>> ELSE d[i]]
    ELSE Append(d, <<k, v>>)
DictDel(d, k) == SelectSeq(d, LAMBDA p : p[1] # k)
DictValues(d) == [i \in DOMAIN d |-> d[i][2]]

-----------------------------------------------------------------------------
(* Splitting *)

\* the maximal runs of characters of s that are outside seps, in order
RunStarts(s, seps) ==
    {i \in DOMAIN s : s[i] \notin seps /\ (IF i = 1 THEN TRUE ELSE s[i-1] \in seps)}
RunEnd(s, seps, i) ==
    Min({j \in i..Len(s) : IF j = Len(s) THEN TRUE ELSE s[j+1] \in seps})
RECURSIVE RunsFrom(_, _, _)
RunsFrom(s, seps, starts) ==
    IF starts = {} THEN <<>>
    ELSE LET i == Min(starts)
         IN <<SubSeq(s, i, RunEnd(s, seps, i))>> \o RunsFrom(s, seps, starts \ {i})
Runs(s, seps) == RunsFrom(s, seps, RunStarts(s, seps))

\* re.split('[, ]+', line): the runs, with an empty string in front when the
\* line is empty or starts with a separator and one behind when it ends with one
resplit(line) ==
    LET seps == {",", " "}
    IN (IF line = <<>> \/ line[1] \in seps THEN <<(<<>>)>> ELSE <<>>)
       \o Runs(line, seps)
       \o (IF line # <<>> /\ line[Len(line)] \in seps THEN <<(<<>>)>> ELSE <<>>)

\* sep.join(parts)
RECURSIVE join(_, _)
join(sep, parts) ==
    IF parts = <<>> THEN <<>>
    ELSE IF Len(parts) = 1 THEN parts[1]
    ELSE parts[1] \o sep \o join(sep, Tail(parts))

-----------------------------------------------------------------------------
(* Regular expressions of the configuration and of the vote tracker *)

\* Config.command_RE, as overridden by meetingLocalConfig.Config:
\*   ^[#\[](\w+)\]?(?:\s+(.*?)|)\s*$
\* WordEnd is the index after the maximal run of \w from index 2; AfterName is
\* the index after the optional "]".
WordEnd(line) ==
    Min({j \in 2..(Len(line) + 1) : IF j > Len(line) THEN TRUE ELSE ~IsWord(line[j])})
AfterName(line) ==
    IF WordEnd(line) <= Len(line) /\ line[WordEnd(line)] = "]"
    THEN WordEnd(line) + 1 ELSE WordEnd(line)
command_RE(line) ==
    /\ Len(line) >= 2
    /\ line[1] \in {"#", "["}
    /\ IsWord(line[2])
    /\ IF AfterName(line) > Len(line) THEN TRUE ELSE IsSpace(line[AfterName(line)])
\* matchobj.groups(''): the command name and the payload
CommandName(line) == SubSeq(line, 2, WordEnd(line) - 1)
CommandPayload(line) == strip(From(line, AfterName(line)))

\* re.match(r'([+-]1|[+-]?0)\b', line)
ballot_RE(line) ==
    \/ Len(line) >= 2 /\ line[1] \in {"+", "-"} /\ line[2] = "1" /\ Boundary(line, 3)
    \/ Len(line) >= 2 /\ line[1] \in {"+", "-"} /\ line[2] = "0" /\ Boundary(line, 3)
    \/ Len(line) >= 1 /\ line[1] = "0" /\ Boundary(line, 2)

\* re.match(r'\+1\b', v), re.match(r'-1\b', v), re.match(r'[+-]?0\b', v)
for_RE(v) == Len(v) >= 2 /\ v[1] = "+" /\ v[2] = "1" /\ Boundary(v, 3)
against_RE(v) == Len(v) >= 2 /\ v[1] = "-" /\ v[2] = "1" /\ Boundary(v, 3)
abstain_RE(v) ==
    \/ Len(v) >= 2 /\ v[1] \in {"+", "-"} /\ v[2] = "0" /\ Boundary(v, 3)
    \/ Len(v) >= 1 /\ v[1] = "0" /\ Boundary(v, 2)

\* Config.UrlProtocols
UrlProtocols ==
    {<<"h", "t", "t", "p", ":">>, <<"h", "t", "t", "p", "s", ":">>,
     <<"i", "r", "c", ":">>, <<"f", "t", "p", ":">>,
     <<"m", "a", "i", "l", "t", "o", ":">>,
     <<"s", "s", "h", ":">>}

\* int(line) of do_votesrequired: an optional sign and decimal digits, single
\* underscores allowed between digits; ValueError otherwise
IntBody(line) ==
    IF line # <<>> /\ line[1] \in {"+", "-"} THEN Tail(line) ELSE line
IsIntLiteral(line) ==
    LET b == IntBody(line)
    IN /\ b # <<>>
       /\ IsDigit(b[1]) /\ IsDigit(b[Len(b)])
       /\ \A i \in DOMAIN b : IsDigit(b[i]) \/ b[i] = "_"
       /\ \A i \in 1..(Len(b) - 1) : ~(b[i] = "_" /\ b[i+1] = "_")
RECURSIVE DigitsValue(_, _)
DigitsValue(b, acc) ==
    IF b = <<>> THEN acc
    ELSE IF b[1] = "_" THEN DigitsValue(Tail(b), acc)
    ELSE DigitsValue(Tail(b), 10 * acc + DigitValue(b[1]))
IntValue(line) ==
    IF line[1] = "-" THEN 0 - DigitsValue(IntBody(line), 0)
    ELSE DigitsValue(IntBody(line), 0)

\* time.strftime("%H:%M", time_) for time_ = [h, m]
NoTime == [h |-> 0 - 1, m |-> 0 - 1]
\* time.localtime(): the sessions of the model run within one minute
localtime == [h |-> 10, m |-> 0]
strftime(time_) ==
    <<Digits[(time_.h \div 10) + 1], Digits[(time_.h % 10) + 1], ":",
      Digits[(time_.m \div 10) + 1], Digits[(time_.m % 10) + 1]>>

-----------------------------------------------------------------------------
(* Minute items (items.py) *)

\* Topic, Subtopic and GenericItem: __init__.  Topic and Subtopic keep the
\* payload in the attribute topic, the others in line; the model keeps both in
\* the field line.  rstref is the attribute that rst() sets; <<>> while unset.
\* assigned is the attribute that iterActionItemsNick sets; FALSE while unset,
\* as getattr(m, 'assigned', False) reads it.
Item(itemtype, nick, line, linenum, time_) ==
    [itemtype |-> itemtype, nick |-> nick, line |-> line, linenum |-> linenum,
     time |-> strftime(time_), rstref |-> <<>>, assigned |-> FALSE]

\* Link.__init__: url, line = (line + ' ').split(' ', 1); line = line.rstrip()
Link(nick, line, linenum, time_) ==
    LET padded == line \o <<" ">>
        cut == Find(padded, <<" ">>)
    IN [itemtype |-> "LINK", nick |-> nick, linenum |-> linenum,
        time |-> strftime(time_), rstref |-> <<>>, assigned |-> FALSE,
        url |-> SubSeq(padded, 1, cut - 1),
        line |-> rstrip(From(padded, cut + 1))]

-----------------------------------------------------------------------------
(* HTML writer: the 'Meeting summary' block (writers.py, HTML.meetingItems) *)

\* one string appended to MeetingItems: its tag(s), its indentation, and the
\* index in M.minutes of the item it shows (0 for a structural line)
Tok(tag, indent) == [tag |-> tag, indent |-> indent, item |-> 0]
ItemTok(tag, indent, i) == [tag |-> tag, indent |-> indent, item |-> i]

\* one iteration of "for m in M.minutes" for the TOPIC branch
HTMLTopic(st, i) ==
    LET o1 == IF st.inSublist THEN Append(st.out, Tok("</ol>", 4)) ELSE st.out
        o2 == IF st.haveSubtopic
              THEN Append(IF st.inSubsublist THEN Append(o1, Tok("</ol>", 8)) ELSE o1,
                          Tok("</li>", 6))
              ELSE o1
        o3 == IF st.haveTopic THEN Append(o2, Tok("</li>", 2)) ELSE o2
    IN [out |-> Append(o3, ItemTok("<li>", 2, i)),
        haveTopic |-> TRUE,
        haveSubtopic |-> FALSE,
        inSublist |-> FALSE,
        inSubsublist |-> IF st.haveSubtopic THEN FALSE ELSE st.inSubsublist]

\* the lines 516-521 and 525-530: open the sublist, and the topic entry when
\* no topic came before
HTMLOpenSublist(st) ==
    IF st.inSublist THEN st
    ELSE LET o1 == IF st.haveTopic THEN st.out ELSE Append(st.out, Tok("<li>", 2))
         IN [st EXCEPT !.out = Append(o1, Tok("<ol>", 4)),
                       !.haveTopic = TRUE,
                       !.inSublist = TRUE]

\* the SUBTOPIC branch
HTMLSubtopic(st, i) ==
    LET s1 == HTMLOpenSublist(st)
    IN [s1 EXCEPT !.out = Append(s1.out, ItemTok("<li>", 6, i)),
                  !.haveSubtopic = TRUE]

\* the branch of every other item
HTMLOther(st, i) ==
    LET s1 == HTMLOpenSublist(st)
    IN IF s1.haveSubtopic
       THEN LET o1 == IF s1.inSubsublist THEN s1.out ELSE Append(s1.out, Tok("<ol>", 8))
            IN [s1 EXCEPT !.out = Append(o1, ItemTok("<li></li>", 10, i)),
                          !.inSubsublist = TRUE]
       ELSE IF s1.haveTopic
       THEN [s1 EXCEPT !.out = Append(s1.out, ItemTok("<li></li>", 6, i))]
       ELSE [s1 EXCEPT !.out = Append(s1.out, ItemTok("<li></li>", 2, i))]

HTMLItem(st, m, i) ==
    IF m.itemtype = "TOPIC" THEN HTMLTopic(st, i)
    ELSE IF m.itemtype = "SUBTOPIC" THEN HTMLSubtopic(st, i)
    ELSE HTMLOther(st, i)

RECURSIVE HTMLLoop(_, _, _)
HTMLLoop(st, minutes, i) ==
    IF i > Len(minutes) THEN st
    ELSE HTMLLoop(HTMLItem(st, minutes[i], i), minutes, i + 1)

\* the lines 542-551, after the loop
HTMLClose(st) ==
    LET o1 == IF st.haveSubtopic
              THEN Append(IF st.inSubsublist THEN Append(st.out, Tok("</ol>", 8))
                                            ELSE st.out,
                          Tok("</li>", 6))
              ELSE st.out
        o2 == IF st.inSublist THEN Append(o1, Tok("</ol>", 4)) ELSE o1
        o3 == IF st.haveTopic THEN Append(o2, Tok("</li>", 2)) ELSE o2
    IN Append(o3, Tok("</ol>", 0))

meetingItems(minutes) ==
    HTMLClose(HTMLLoop([out |-> <<Tok("<h3></h3>", 0), Tok("<ol>", 0)>>,
                        haveTopic |-> FALSE, haveSubtopic |-> FALSE,
                        inSublist |-> FALSE, inSubsublist |-> FALSE],
                       minutes, 1))

-----------------------------------------------------------------------------
(* The Meeting object (meeting.py) *)

\* Meeting.__init__.  Attributes the constructor leaves unset are given the
\* value nothing reads before it is assigned: isop (addline), currentVote and
\* currentVoteStartLine (do_vote), starttime and endtime (NoTime).  None and
\* '' are both the empty text: the source only tests them for truth.
\* irc_topic is the channel topic as last set through the _setTopic callback
\* (oldtopic until then); files is what Config.save has written, by extension.
\* rst_urls and rst_refs exist only while ReST.format runs (empty otherwise);
\* rst_refs is a dict used as a set.  writeRawLog and writers are the
\* attributes of M.config (the plugin constructs every Meeting with
\* writeRawLog=True); writers is <<>> until setWriters has run.  broken is the
\* writer whose format or writeToFile raises at present ("none": every writer
\* works), and raised is the exception that left the last call on the
\* object, named by the writer that raised it ("none": the call returned).
\* setTopic is hasattr(self, '_setTopic'): the plugin passes the callback to
\* the Meeting of a live session and not to the one it replays into.
Meeting(owner, botNick, botIsOp, oldtopic) ==
    [owner |-> owner, botIsOp |-> botIsOp, botNick |-> botNick,
     currenttopic |-> <<>>, oldtopic |-> oldtopic,
     lines |-> <<>>, minutes |-> <<>>, attendees |-> <<>>,
     chairs |-> <<>>, voters |-> <<>>, publicVoters |-> <<>>, votes |-> <<>>,
     votesrequired |-> 0, activeVote |-> <<>>,
     currentVote |-> <<>>, currentVoteStartLine |-> 0,
     meetingTopic |-> <<>>, meetingname |-> <<>>, meetingIsOver |-> FALSE,
     lurk |-> FALSE, restrictlogs |-> FALSE, isop |-> FALSE,
     starttime |-> NoTime, endtime |-> NoTime,
     irc_topic |-> oldtopic, files |-> <<>>,
     rst_urls |-> <<>>, rst_refs |-> {},
     writeRawLog |-> TRUE, writers |-> <<>>, setTopic |-> TRUE,
     broken |-> "none", raised |-> "none"]

\* Meeting.topic
topic(S, x) ==
    IF S.setTopic /\ ~S.lurk /\ S.botIsOp THEN [S EXCEPT !.irc_topic = x] ELSE S

\* Meeting.settopic
settopic(S) ==
    LET t1 == IF S.oldtopic # <<>> THEN S.oldtopic \o s_sepTopic ELSE <<>>
        t2 == IF S.meetingTopic # <<>>
              THEN t1 \o S.meetingTopic
                      \o (IF ~Contains(lower(S.meetingTopic), s_meeting)
                          THEN s_spMeeting ELSE <<>>)
                      \o s_sepCurrent
              ELSE t1
    IN topic(S, t2 \o S.currenttopic)

\* addnick as it would be if a nick that is named counted as one line
addnick_oneline(S, nick, lines) ==
    IF nick # S.botNick
    THEN [S EXCEPT !.attendees =
                       DictSet(@, nick, DictGet(@, nick, 0) + (IF lines = 0 THEN 1 ELSE lines))]
    ELSE S

\* Meeting.addnick
addnick(S, nick, lines) ==
    IF nick # S.botNick
    THEN [S EXCEPT !.attendees = DictSet(@, nick, DictGet(@, nick, 0) + lines)]
    ELSE S

\* isChair as it would be if the owner had to be in the chair set
isChair_chairsonly(S, nick) == DictHas(S.chairs, nick) \/ S.isop

\* Meeting.isChair
isChair(S, nick) == nick = S.owner \/ DictHas(S.chairs, nick) \/ S.isop

\* Meeting.additem
additem(S, m) == [S EXCEPT !.minutes = Append(@, m)]

\* addrawline as it would be if a raw line that is a ballot were cast
addrawline_cast(S, nick, line, time_) ==
    LET S1 == addnick(S, nick, 1)
        l == stripChars(line, {SOH})
        logline == IF Upto(l, 6) = s_ACTION
                   THEN strftime(time_) \o <<" ", "*", " ">> \o nick \o <<" ">>
                                        \o lstrip(From(l, 8))
                   ELSE strftime(time_) \o <<" ", "<">> \o nick \o <<">", " ">> \o l
    IN [S1 EXCEPT !.lines = Append(@, logline),
                  !.currentVote = IF ballot_RE(l) /\ S.activeVote # <<>>
                                  THEN DictSet(@, nick, l) ELSE @]

\* Meeting.addrawline; the line number it returns is Len of the new lines
addrawline(S, nick, line, time_) ==
    LET S1 == addnick(S, nick, 1)
        l == stripChars(line, {SOH})
        logline == IF Upto(l, 6) = s_ACTION
                   THEN strftime(time_) \o <<" ", "*", " ">> \o nick \o <<" ">>
                                        \o lstrip(From(l, 8))
                   ELSE strftime(time_) \o <<" ", "<">> \o nick \o <<">", " ">> \o l
    IN [S1 EXCEPT !.lines = Append(@, logline)]

-----------------------------------------------------------------------------
(* Saving (meeting.py, Config.save with the writers of meetingLocalConfig) *)

\* \b at index i of s: exactly one of s[i-1] and s[i] is a word character
IsBoundary(s, i) ==
    (IF i > 1 THEN IsWord(s[i - 1]) ELSE FALSE)
        # (IF i <= Len(s) THEN IsWord(s[i]) ELSE FALSE)

\* re.match(r'.*\b%s\b.*' % re.escape(nick), line, re.I)
nickMatches(nick, line) ==
    \E i \in 1..(Len(line) - Len(nick) + 1) :
        /\ lower(SubSeq(line, i, i + Len(nick) - 1)) = lower(nick)
        /\ IsBoundary(line, i)
        /\ IsBoundary(line, i + Len(nick))

\* _BaseWriter.iterActionItemsNick, consumed to its end as actionItemsPerson
\* does: every Action item that names an attendee gets m.assigned = True
iterActionItemsNick(S) ==
    [i \in DOMAIN S.minutes |->
        IF /\ S.minutes[i].itemtype = "ACTION"
           /\ \E n \in DictKeys(S.attendees) : nickMatches(n, S.minutes[i].line)
        THEN [S.minutes[i] EXCEPT !.assigned = TRUE]
        ELSE S.minutes[i]]

\* html(text): '&', '<' and '>' replaced by their entities
RECURSIVE html(_)
html(text) ==
    IF text = <<>> THEN <<>>
    ELSE (CASE text[1] = "&" -> <<"&", "a", "m", "p", ";">>
            [] text[1] = "<" -> <<"&", "l", "t", ";">>
            [] text[1] = ">" -> <<"&", "g", "t", ";">>
            [] OTHER -> <<text[1]>>) \o html(Tail(text))

\* the characters of nicks in code point order, and str < str
CharOrder ==
    <<"-">> \o Digits \o Uppercase \o <<"[", "]", "^", "_">> \o Lowercase
            \o <<"{", "|", "}">>
Ord(c) == CHOOSE i \in DOMAIN CharOrder : CharOrder[i] = c
RECURSIVE StrLess(_, _)
StrLess(a, b) ==
    IF b = <<>> THEN FALSE
    ELSE IF a = <<>> THEN TRUE
    ELSE IF a[1] = b[1] THEN StrLess(Tail(a), Tail(b))
    ELSE Ord(a[1]) < Ord(b[1])

\* sorted(keys, key=lambda x: x.lower()): stable, equal keys keep their order
RECURSIVE sorted(_)
sorted(keys) ==
    IF keys = <<>> THEN <<>>
    ELSE LET front == sorted(SubSeq(keys, 1, Len(keys) - 1))
             last == keys[Len(keys)]
             before == SelectSeq(front, LAMBDA k : ~StrLess(lower(last), lower(k)))
             after == SelectSeq(front, LAMBDA k : StrLess(lower(last), lower(k)))
         IN before \o <<last>> \o after

\* list(self.M.attendees.keys()), in insertion order
attendeeKeys(S) == [i \in DOMAIN S.attendees |-> S.attendees[i][1]]

\* nickitems as it would be if the pattern had no \b
nickitems_substring(S, nick) ==
    SelectSeq(S.minutes, LAMBDA m :
        /\ m.itemtype = "ACTION"
        /\ \E i \in 1..(Len(m.line) - Len(nick) + 1) :
               lower(SubSeq(m.line, i, i + Len(nick) - 1)) = lower(nick))

\* nickitems() of iterActionItemsNick: the Action items that name nick
nickitems(S, nick) ==
    SelectSeq(S.minutes, LAMBDA m : m.itemtype = "ACTION" /\ nickMatches(nick, m.line))

\* _BaseWriter.iterActionItemsUnassigned over the items as
\* iterActionItemsNick left them
iterActionItemsUnassigned(minutes) ==
    SelectSeq(minutes, LAMBDA m : m.itemtype = "ACTION" /\ ~m.assigned)

s_UNASSIGNED == <<"U", "N", "A", "S", "S", "I", "G", "N", "E", "D">>

\* HTML.actionItemsPerson: one group per attendee with items, in the order
\* of iterActionItemsNick, then the group of the unassigned items; None (here
\* the empty sequence, which no block is) when no attendee has an item
actionItemsPerson(S) ==
    LET nicks == sorted(attendeeKeys(S))
        all == [k \in DOMAIN nicks |->
                   [nick |-> html(nicks[k]), unassigned |-> FALSE,
                    items |-> [j \in DOMAIN nickitems(S, nicks[k]) |->
                                  html(nickitems(S, nicks[k])[j].line)]]]
        ActionItemsPerson == SelectSeq(all, LAMBDA g : g.items # <<>>)
        rest == iterActionItemsUnassigned(iterActionItemsNick(S))
        Unassigned == [j \in DOMAIN rest |-> html(rest[j].line)]
    IN IF ActionItemsPerson = <<>> THEN <<>>
       ELSE ActionItemsPerson
            \o (IF Unassigned # <<>>
                THEN <<[nick |-> s_UNASSIGNED, unassigned |-> TRUE, items |-> Unassigned]>>
                ELSE <<>>)

\* _BaseItem.template with the escape of get_template, lambda s: s: the
\* keys a template may use; anchor is 'l-<linenum>' and topic is the text of
\* a Topic item
template(m) ==
    [itemtype |-> m.itemtype, nick |-> m.nick, time |-> m.time, anchor |-> m.linenum,
     line |-> m.line]

\* the null topic get_template starts with
s_Prologue == <<"P", "r", "o", "l", "o", "g", "u", "e">>
Prologue ==
    [itemtype |-> "TOPIC", nick |-> <<>>, time |-> <<>>, anchor |-> 0, line |-> s_Prologue]

\* the loop of get_template as it would be if every group were appended
RECURSIVE templateLoop_always(_, _, _)
templateLoop_always(MeetingItems, nextTopic, minutes) ==
    IF minutes = <<>> THEN Append(MeetingItems, nextTopic)
    ELSE IF Head(minutes).itemtype = "TOPIC"
    THEN templateLoop_always(Append(MeetingItems, nextTopic),
                             [topic |-> template(Head(minutes)), items |-> <<>>],
                             Tail(minutes))
    ELSE templateLoop_always(MeetingItems,
                             [nextTopic EXCEPT !.items = Append(@, template(Head(minutes)))],
                             Tail(minutes))

\* "for m in M.minutes" of get_template and the append after it
RECURSIVE templateLoop(_, _, _)
templateLoop(MeetingItems, nextTopic, minutes) ==
    IF minutes = <<>> THEN Append(MeetingItems, nextTopic)
    ELSE IF Head(minutes).itemtype = "TOPIC"
    THEN templateLoop(IF nextTopic.topic.nick # <<>> \/ nextTopic.items # <<>>
                      THEN Append(MeetingItems, nextTopic) ELSE MeetingItems,
                      [topic |-> template(Head(minutes)), items |-> <<>>],
                      Tail(minutes))
    ELSE templateLoop(MeetingItems,
                      [nextTopic EXCEPT !.items = Append(@, template(Head(minutes)))],
                      Tail(minutes))

\* the by-attendee list of get_template: the unassigned bucket is appended
\* when it has more than one item
get_template_ActionItemsPerson(S) ==
    LET nicks == sorted(attendeeKeys(S))
        all == [k \in DOMAIN nicks |->
                   [nick |-> nicks[k], unassigned |-> FALSE,
                    items |-> [j \in DOMAIN nickitems(S, nicks[k]) |->
                                  nickitems(S, nicks[k])[j].line]]]
        rest == iterActionItemsUnassigned(iterActionItemsNick(S))
    IN SelectSeq(all, LAMBDA g : g.items # <<>>)
       \o (IF Len(rest) > 1
           THEN <<[nick |-> s_UNASSIGNED, unassigned |-> TRUE,
                   items |-> [j \in DOMAIN rest |-> rest[j].line]]>>
           ELSE <<>>)

\* _BaseWriter.get_template: the agenda groups and the by-attendee list
get_template(S) ==
    [MeetingItems |-> templateLoop(<<>>, [topic |-> Prologue, items |-> <<>>], S.minutes),
     ActionItemsPerson |-> get_template_ActionItemsPerson(S)]

\* the key under which a configuration names the Template writer, and the
\* extension save cuts from it at '|'
s_template == ".txt|template=+template.txt"

\* TextLog.format: "\n".join(M.lines)
TextLog(S) == S.lines
\* HTMLlog.format: one anchored line l-<n> per transcript line
HTMLlog(S) == [n \in DOMAIN S.lines |-> n]
\* HTML.format: the blocks of the summary
HTML(S) ==
    [MeetingItems |-> meetingItems(S.minutes), ActionItemsPerson |-> actionItemsPerson(S)]

\* Config.writer_map of meetingLocalConfig, in the order of the dict
writer_map == <<".log.html", ".html">>

\* Config.setWriters: the raw log when writeRawLog, then the writers of writer_map
setWriters(S) ==
    [S EXCEPT !.writers = (IF S.writeRawLog THEN <<".log.txt">> ELSE <<>>) \o writer_map]

\* writer_names as it would be if save moved '.log.txt' to the end of the list
writer_names_rawlast(writers) ==
    IF \E i \in DOMAIN writers : writers[i] = ".log.txt"
    THEN SelectSeq(writers, LAMBDA e : e # ".log.txt") \o <<".log.txt">>
    ELSE writers

\* the order in which save visits the writers: list(self.writers.keys()),
\* with '.log.txt' removed and inserted in front when it is there
writer_names(writers) ==
    IF \E i \in DOMAIN writers : writers[i] = ".log.txt"
    THEN <<".log.txt">> \o SelectSeq(writers, LAMBDA e : e # ".log.txt")
    ELSE writers

\* getattr(writer, 'update_realtime', False): only TextLog sets it
update_realtime(extension) == extension = ".log.txt"

\* text = writer.format(extension); self.writeToFile(text, rawname + extension)
format(S, extension) ==
    CASE extension = ".log.txt" -> [S EXCEPT !.files = DictSet(@, extension, TextLog(S))]
      [] extension = ".log.html" -> [S EXCEPT !.files = DictSet(@, extension, HTMLlog(S))]
      [] extension = ".html" ->
            [S EXCEPT !.minutes = iterActionItemsNick(S),
                      !.files = DictSet(@, extension, HTML(S))]
      [] extension = s_template ->
            [S EXCEPT !.minutes = iterActionItemsNick(S),
                      !.files = DictSet(@, ".txt", get_template(S))]
      [] OTHER -> S

\* "for extension in writer_names": a realtime update skips the writers
\* without update_realtime; the exception of a writer leaves the loop
RECURSIVE saveLoop(_, _, _)
saveLoop(S, names, realtime_update) ==
    IF names = <<>> THEN S
    ELSE IF realtime_update /\ ~update_realtime(Head(names))
    THEN saveLoop(S, Tail(names), realtime_update)
    ELSE IF Head(names) = S.broken THEN [S EXCEPT !.raised = Head(names)]
    ELSE saveLoop(format(S, Head(names)), Tail(names), realtime_update)

\* Config.save: nothing before the meeting has a start time on a realtime
\* update; the writers are set up on the first save
save(S, realtime_update) ==
    IF realtime_update /\ S.starttime = NoTime THEN S
    ELSE LET S1 == IF S.writers = <<>> THEN setWriters(S) ELSE S
         IN saveLoop(S1, writer_names(S1.writers), realtime_update)

-----------------------------------------------------------------------------
(* Commands (meeting.py, MeetingCommands) *)

do_meetingtopic(S, nick, line, linenum, time_) ==
    IF ~isChair(S, nick) THEN S
    ELSE settopic([S EXCEPT !.meetingTopic =
                      IF \/ line = <<>>
                         \/ lower(line) \in {<<"n", "o", "n", "e">>,
                                             <<"u", "n", "s", "e", "t">>}
                      THEN <<>> ELSE line])

do_startmeeting(S, nick, line, linenum, time_) ==
    LET S1 == IF S.owner = <<>> THEN [S EXCEPT !.owner = nick] ELSE S
        S2 == IF S1.starttime = NoTime THEN [S1 EXCEPT !.starttime = time_] ELSE S1
    IN IF line # <<>> THEN do_meetingtopic(S2, nick, line, linenum, time_) ELSE S2

\* do_topic as it would be without its isChair test
do_topic_anyone(S, nick, line, linenum, time_) ==
    settopic(additem([S EXCEPT !.currenttopic = line],
                     Item("TOPIC", nick, line, linenum, time_)))

do_topic(S, nick, line, linenum, time_) ==
    IF ~isChair(S, nick) THEN S
    ELSE settopic(additem([S EXCEPT !.currenttopic = line],
                          Item("TOPIC", nick, line, linenum, time_)))

do_subtopic(S, nick, line, linenum, time_) ==
    IF ~isChair(S, nick) THEN S
    ELSE additem(S, Item("SUBTOPIC", nick, line, linenum, time_))

do_save(S, nick, line, linenum, time_) ==
    IF ~isChair(S, nick) THEN S
    ELSE save([S EXCEPT !.endtime = time_], FALSE)

\* do_done, do_agreed, do_accepted, do_rejected
do_chairitem(S, itemtype, nick, line, linenum, time_) ==
    IF ~isChair(S, nick) THEN S
    ELSE additem(S, Item(itemtype, nick, line, linenum, time_))

RECURSIVE chairEach(_, _)
chairEach(S, toks) ==
    IF toks = <<>> THEN S
    ELSE LET chair == Head(toks)
         IN IF chair = <<>> \/ DictHas(S.chairs, chair)
            THEN chairEach(S, Tail(toks))
            ELSE chairEach([addnick(S, chair, 0) EXCEPT !.chairs = DictSet(@, chair, TRUE)],
                           Tail(toks))
do_chair(S, nick, line, linenum, time_) ==
    IF ~isChair(S, nick) THEN S ELSE chairEach(S, resplit(line))

RECURSIVE unchairEach(_, _)
unchairEach(S, toks) ==
    IF toks = <<>> THEN S
    ELSE unchairEach([S EXCEPT !.chairs = DictDel(@, Head(toks))], Tail(toks))
do_unchair(S, nick, line, linenum, time_) ==
    IF ~isChair(S, nick) THEN S ELSE unchairEach(S, resplit(line))

\* do_undo as it would be if it removed the first item
do_undo_first(S, nick, line, linenum, time_) ==
    IF ~isChair(S, nick) THEN S
    ELSE IF S.minutes = <<>> THEN S
    ELSE [S EXCEPT !.minutes = Tail(@)]

do_undo(S, nick, line, linenum, time_) ==
    IF ~isChair(S, nick) THEN S
    ELSE IF S.minutes = <<>> THEN S
    ELSE [S EXCEPT !.minutes = SubSeq(@, 1, Len(@) - 1)]

do_restrictlogs(S, nick, line, linenum, time_) ==
    IF ~isChair(S, nick) THEN S ELSE [S EXCEPT !.restrictlogs = TRUE]

do_lurk(S, nick, line, linenum, time_) ==
    IF ~isChair(S, nick) THEN S ELSE [S EXCEPT !.lurk = TRUE]

do_unlurk(S, nick, line, linenum, time_) ==
    IF ~isChair(S, nick) THEN S ELSE [S EXCEPT !.lurk = FALSE]

do_meetingname(S, nick, line, linenum, time_) ==
    IF ~isChair(S, nick) THEN S
    ELSE [S EXCEPT !.meetingname = join(<<"_">>, Runs(lower(line), {" ", "\t"}))]

\* do_vote as it would be without its test of self.activeVote
do_vote_reopen(S, nick, line, linenum, time_) ==
    IF ~isChair(S, nick) THEN S
    ELSE [S EXCEPT !.activeVote = line,
                   !.currentVote = <<>>,
                   !.publicVoters = DictSet(@, line, <<>>),
                   !.currentVoteStartLine = Len(S.lines)]

do_vote(S, nick, line, linenum, time_) ==
    IF ~isChair(S, nick) THEN S
    ELSE IF S.activeVote # <<>> THEN S
    ELSE [S EXCEPT !.activeVote = line,
                   !.currentVote = <<>>,
                   !.publicVoters = DictSet(@, line, <<>>),
                   !.currentVoteStartLine = Len(S.lines)]

\* do_votesrequired as it would be if a ValueError left the margin alone
do_votesrequired_keep(S, nick, line, linenum, time_) ==
    IF ~isChair(S, nick) THEN S
    ELSE [S EXCEPT !.votesrequired = IF IsIntLiteral(line) THEN IntValue(line) ELSE @]

do_votesrequired(S, nick, line, linenum, time_) ==
    IF ~isChair(S, nick) THEN S
    ELSE [S EXCEPT !.votesrequired = IF IsIntLiteral(line) THEN IntValue(line) ELSE 0]

\* the tally loop of do_endvote over self.currentVote.values()
Tally(currentVote) ==
    LET v == DictValues(currentVote)
    IN [vfor |-> Cardinality({i \in DOMAIN v : for_RE(v[i])}),
        vagainst |-> Cardinality({i \in DOMAIN v : ~for_RE(v[i]) /\ against_RE(v[i])}),
        vabstain |-> Cardinality({i \in DOMAIN v : ~for_RE(v[i]) /\ ~against_RE(v[i])
                                                    /\ abstain_RE(v[i])})]

\* voteResult as it would be with > in place of >=
voteResult_strict(vfor, vagainst, votesrequired) ==
    IF vfor - vagainst > votesrequired THEN s_Carried ELSE s_Denied

\* the if / elif / elif of do_endvote; voteResult stays unbound when no branch
\* is taken
voteResult(vfor, vagainst, votesrequired) ==
    IF vfor - vagainst >= votesrequired THEN s_Carried
    ELSE IF vfor - vagainst < votesrequired THEN s_Denied
    ELSE IF votesrequired = 0 THEN s_Deadlock
    ELSE <<"U", "n", "b", "o", "u", "n", "d">>

motionOf(result) ==
    IF result = s_Carried THEN "Motion carried"
    ELSE IF result = s_Denied THEN "Motion denied"
    ELSE "Motion deadlocked"

\* do_endvote as it would be without its test of self.activeVote
do_endvote_noguard(S, nick, line, linenum, time_) ==
    IF ~isChair(S, nick) THEN S
    ELSE LET t == Tally(S.currentVote)
             r == voteResult(t.vfor, t.vagainst, S.votesrequired)
             voteSummary == [motion |-> motionOf(r), vfor |-> t.vfor,
                             vagainst |-> t.vagainst, vabstain |-> t.vabstain]
             S1 == [S EXCEPT !.votes = DictSet(@, S.activeVote,
                                               <<voteSummary, S.currentVoteStartLine>>)]
             S2 == additem(S1, Item("VOTE", nick,
                                    S.activeVote \o <<" ", "(">> \o r \o <<")">>,
                                    linenum, time_))
         IN [S2 EXCEPT !.activeVote = <<>>,
                       !.currentVote = <<>>,
                       !.currentVoteStartLine = 0]

\* do_endvote as it would be if the result were stored with the number of
\* the '#endvote' line
do_endvote_endline(S, nick, line, linenum, time_) ==
    IF ~isChair(S, nick) THEN S
    ELSE IF S.activeVote = <<>> THEN S
    ELSE LET t == Tally(S.currentVote)
             r == voteResult(t.vfor, t.vagainst, S.votesrequired)
             voteSummary == [motion |-> motionOf(r), vfor |-> t.vfor,
                             vagainst |-> t.vagainst, vabstain |-> t.vabstain]
             S1 == [S EXCEPT !.votes = DictSet(@, S.activeVote, <<voteSummary, linenum>>)]
             S2 == additem(S1, Item("VOTE", nick,
                                    S.activeVote \o <<" ", "(">> \o r \o <<")">>,
                                    linenum, time_))
         IN [S2 EXCEPT !.activeVote = <<>>,
                       !.currentVote = <<>>,
                       !.currentVoteStartLine = 0]

do_endvote(S, nick, line, linenum, time_) ==
    IF ~isChair(S, nick) THEN S
    ELSE IF S.activeVote = <<>> THEN S
    ELSE LET t == Tally(S.currentVote)
             r == voteResult(t.vfor, t.vagainst, S.votesrequired)
             voteSummary == [motion |-> motionOf(r), vfor |-> t.vfor,
                             vagainst |-> t.vagainst, vabstain |-> t.vabstain]
             S1 == [S EXCEPT !.votes = DictSet(@, S.activeVote,
                                               <<voteSummary, S.currentVoteStartLine>>)]
             S2 == additem(S1, Item("VOTE", nick,
                                    S.activeVote \o <<" ", "(">> \o r \o <<")">>,
                                    linenum, time_))
         IN [S2 EXCEPT !.activeVote = <<>>,
                       !.currentVote = <<>>,
                       !.currentVoteStartLine = 0]

RECURSIVE votersEach(_, _)
votersEach(S, toks) ==
    IF toks = <<>> THEN S
    ELSE LET voter == Head(toks)
         IN IF voter = <<>> THEN votersEach(S, Tail(toks))
            ELSE IF voter \in {<<"e", "v", "e", "r", "y", "o", "n", "e">>,
                                <<"e", "v", "e", "r", "y", "b", "o", "d", "y">>,
                                <<"a", "l", "l">>}
            THEN [S EXCEPT !.voters = <<>>]
            ELSE IF DictHas(S.voters, voter) THEN votersEach(S, Tail(toks))
            ELSE votersEach([addnick(S, voter, 0) EXCEPT !.voters = DictSet(@, voter, TRUE)],
                            Tail(toks))
do_voters(S, nick, line, linenum, time_) ==
    IF ~isChair(S, nick) THEN S ELSE votersEach(S, resplit(line))

\* Meeting.endmeeting
endmeeting(S) == save(S, FALSE)

\* do_endmeeting as it would be if it left an open round as it is
do_endmeeting_leaveround(S, nick, line, linenum, time_) ==
    IF ~isChair(S, nick) THEN S
    ELSE LET S2 == topic(S, S.oldtopic)
         IN endmeeting([S2 EXCEPT !.endtime = time_, !.meetingIsOver = TRUE])

\* do_endmeeting as it would be if the open round were ended without the
\* line number of the '#endmeeting' line
do_endmeeting_noline(S, nick, line, linenum, time_) ==
    IF ~isChair(S, nick) THEN S
    ELSE LET S1 == IF S.activeVote # <<>>
                   THEN do_endvote(S, nick, line, 0, localtime) ELSE S
             S2 == topic(S1, S1.oldtopic)
         IN endmeeting([S2 EXCEPT !.endtime = time_, !.meetingIsOver = TRUE])

\* an open round is ended with the line number of the '#endmeeting' line and
\* a time read from the clock
do_endmeeting(S, nick, line, linenum, time_) ==
    IF ~isChair(S, nick) THEN S
    ELSE LET S1 == IF S.activeVote # <<>>
                   THEN do_endvote(S, nick, line, linenum, localtime) ELSE S
             S2 == topic(S1, S1.oldtopic)
         IN endmeeting([S2 EXCEPT !.endtime = time_, !.meetingIsOver = TRUE])

\* do_action, do_info, do_idea, do_help
do_item(S, itemtype, nick, line, linenum, time_) ==
    additem(S, Item(itemtype, nick, line, linenum, time_))

do_link(S, nick, line, linenum, time_) ==
    additem(S, Link(nick, line, linenum, time_))

RECURSIVE nickEach(_, _)
nickEach(S, toks) ==
    IF toks = <<>> THEN S
    ELSE IF Head(toks) = <<>> THEN nickEach(S, Tail(toks))
    ELSE nickEach(addnick(S, Head(toks), 0), Tail(toks))
do_nick(S, nick, line, linenum, time_) == nickEach(S, resplit(line))

\* the commands that are for chairs only: each starts with the isChair test
ChairCommands ==
    {s_endmeeting, s_topic, s_subtopic, s_progress, s_meetingtopic, s_save,
     s_done, s_agreed, s_agree, s_accepted, s_accept, s_rejected, s_reject,
     s_chair, s_unchair, s_undo, s_restrictlogs, s_lurk, s_unlurk,
     s_meetingname, s_vote, s_votesrequired, s_endvote, s_voters}
\* the commands for anyone; abortmeeting, replay, private_commands and
\* commands change no attribute of the meeting
OpenCommands ==
    {s_startmeeting, s_abortmeeting, s_replay, s_private_commands, s_action,
     s_info, s_idea, s_help, s_halp, s_nick, s_link, s_commands}
\* hasattr(self, "do_" + command)
KnownCommands == ChairCommands \cup OpenCommands

\* getattr(self, "do_" + command)(nick=nick, line=line, linenum=linenum, time_=time_)
Dispatch(S, command, nick, line, linenum, time_) ==
    CASE command = s_startmeeting -> do_startmeeting(S, nick, line, linenum, time_)
      [] command = s_endmeeting -> do_endmeeting(S, nick, line, linenum, time_)
      [] command = s_topic -> do_topic(S, nick, line, linenum, time_)
      [] command \in {s_subtopic, s_progress} -> do_subtopic(S, nick, line, linenum, time_)
      [] command = s_meetingtopic -> do_meetingtopic(S, nick, line, linenum, time_)
      [] command = s_save -> do_save(S, nick, line, linenum, time_)
      [] command = s_done -> do_chairitem(S, "DONE", nick, line, linenum, time_)
      [] command \in {s_agreed, s_agree} -> do_chairitem(S, "AGREED", nick, line, linenum, time_)
      [] command \in {s_accepted, s_accept} -> do_chairitem(S, "ACCEPTED", nick, line, linenum, time_)
      [] command \in {s_rejected, s_reject} -> do_chairitem(S, "REJECTED", nick, line, linenum, time_)
      [] command = s_chair -> do_chair(S, nick, line, linenum, time_)
      [] command = s_unchair -> do_unchair(S, nick, line, linenum, time_)
      [] command = s_undo -> do_undo(S, nick, line, linenum, time_)
      [] command = s_restrictlogs -> do_restrictlogs(S, nick, line, linenum, time_)
      [] command = s_lurk -> do_lurk(S, nick, line, linenum, time_)
      [] command = s_unlurk -> do_unlurk(S, nick, line, linenum, time_)
      [] command = s_meetingname -> do_meetingname(S, nick, line, linenum, time_)
      [] command = s_vote -> do_vote(S, nick, line, linenum, time_)
      [] command = s_votesrequired -> do_votesrequired(S, nick, line, linenum, time_)
      [] command = s_endvote -> do_endvote(S, nick, line, linenum, time_)
      [] command = s_voters -> do_voters(S, nick, line, linenum, time_)
      [] command = s_action -> do_item(S, "ACTION", nick, line, linenum, time_)
      [] command = s_info -> do_item(S, "INFO", nick, line, linenum, time_)
      [] command = s_idea -> do_item(S, "IDEA", nick, line, linenum, time_)
      [] command \in {s_help, s_halp} -> do_item(S, "HELP", nick, line, linenum, time_)
      [] command = s_nick -> do_nick(S, nick, line, linenum, time_)
      [] command = s_link -> do_link(S, nick, line, linenum, time_)
      [] OTHER -> S

\* doCastVote as it would be if a nick's first ballot of a round were kept
doCastVote_keepfirst(S, nick, line, private) ==
    IF (S.voters = <<>> \/ DictHas(S.voters, nick)) /\ S.activeVote # <<>>
    THEN [S EXCEPT !.currentVote = IF DictHas(@, nick) THEN @ ELSE DictSet(@, nick, line),
                   !.publicVoters =
                       IF private THEN @
                       ELSE DictSet(@, S.activeVote,
                                    Append(DictGet(@, S.activeVote, <<>>), nick))]
    ELSE S

\* doCastVote as it would be if every ballot were appended to the round
doCastVote_append(S, nick, line, private) ==
    IF (S.voters = <<>> \/ DictHas(S.voters, nick)) /\ S.activeVote # <<>>
    THEN [S EXCEPT !.currentVote = Append(@, <<nick, line>>),
                   !.publicVoters =
                       IF private THEN @
                       ELSE DictSet(@, S.activeVote,
                                    Append(DictGet(@, S.activeVote, <<>>), nick))]
    ELSE S

\* doCastVote as it would be without its test of self.activeVote
doCastVote_noround(S, nick, line, private) ==
    IF S.voters = <<>> \/ DictHas(S.voters, nick)
    THEN [S EXCEPT !.currentVote = DictSet(@, nick, line),
                   !.publicVoters =
                       IF private THEN @
                       ELSE DictSet(@, S.activeVote,
                                    Append(DictGet(@, S.activeVote, <<>>), nick))]
    ELSE S

\* doCastVote as it would be without its test of self.voters
doCastVote_anyone(S, nick, line, private) ==
    IF S.activeVote # <<>>
    THEN [S EXCEPT !.currentVote = DictSet(@, nick, line),
                   !.publicVoters =
                       IF private THEN @
                       ELSE DictSet(@, S.activeVote,
                                    Append(DictGet(@, S.activeVote, <<>>), nick))]
    ELSE S

\* doCastVote as it would be if the public-cast list named each nick once
doCastVote_distinct(S, nick, line, private) ==
    IF (S.voters = <<>> \/ DictHas(S.voters, nick)) /\ S.activeVote # <<>>
    THEN [S EXCEPT !.currentVote = DictSet(@, nick, line),
                   !.publicVoters =
                       IF private \/ (\E i \in DOMAIN DictGet(@, S.activeVote, <<>>) :
                                         DictGet(@, S.activeVote, <<>>)[i] = nick)
                       THEN @
                       ELSE DictSet(@, S.activeVote,
                                    Append(DictGet(@, S.activeVote, <<>>), nick))]
    ELSE S

\* Meeting.doCastVote
doCastVote(S, nick, line, private) ==
    IF (S.voters = <<>> \/ DictHas(S.voters, nick)) /\ S.activeVote # <<>>
    THEN [S EXCEPT !.currentVote = DictSet(@, nick, line),
                   !.publicVoters =
                       IF private THEN @
                       ELSE DictSet(@, S.activeVote,
                                    Append(DictGet(@, S.activeVote, <<>>), nick))]
    ELSE S

\* what the ballot pattern is tried on: the remainder after the command
\* token of a command line, the whole text of any other line
PayloadOf(line) == IF command_RE(line) THEN CommandPayload(line) ELSE line

\* addline as it would be if only the lines that are no command were logged
addline_speechonly(S, nick, line, isop, time_) ==
    LET matched == command_RE(line)
        S1 == [(IF matched THEN S ELSE addrawline(S, nick, line, time_))
                  EXCEPT !.isop = isop]
        linenum == Len(S1.lines)
        payload == IF matched THEN CommandPayload(line) ELSE line
        S2 == IF matched
              THEN IF lower(CommandName(line)) \in KnownCommands
                   THEN Dispatch(S1, lower(CommandName(line)), nick, payload, linenum, time_)
                   ELSE S1
              ELSE IF SplitHead(line, s_slashes) \in UrlProtocols
                   THEN do_link(S1, nick, line, linenum, time_)
                   ELSE S1
        S3 == save(S2, TRUE)
    IN IF ballot_RE(payload) THEN doCastVote(S3, nick, payload, FALSE) ELSE S3

\* addline as it would be if a command without a method were taken as '#info'
addline_infodefault(S, nick, line, isop, time_) ==
    LET S1 == [addrawline(S, nick, line, time_) EXCEPT !.isop = isop, !.raised = "none"]
        linenum == Len(S1.lines)
        matched == command_RE(line)
        payload == IF matched THEN CommandPayload(line) ELSE line
        S2 == IF matched
              THEN IF lower(CommandName(line)) \in KnownCommands
                   THEN Dispatch(S1, lower(CommandName(line)), nick, payload, linenum, time_)
                   ELSE do_item(S1, "INFO", nick, payload, linenum, time_)
              ELSE IF SplitHead(line, s_slashes) \in UrlProtocols
                   THEN do_link(S1, nick, line, linenum, time_)
                   ELSE S1
        S3 == save(S2, TRUE)
    IN IF S2.raised # "none" THEN S2
       ELSE IF S3.raised # "none" THEN S3
       ELSE IF ballot_RE(payload) THEN doCastVote(S3, nick, payload, FALSE)
       ELSE S3

\* addline as it would be if the ballot pattern were tried on the whole line
addline_wholeline(S, nick, line, isop, time_) ==
    LET S1 == [addrawline(S, nick, line, time_) EXCEPT !.isop = isop, !.raised = "none"]
        linenum == Len(S1.lines)
        matched == command_RE(line)
        payload == IF matched THEN CommandPayload(line) ELSE line
        S2 == IF matched
              THEN IF lower(CommandName(line)) \in KnownCommands
                   THEN Dispatch(S1, lower(CommandName(line)), nick, payload, linenum, time_)
                   ELSE S1
              ELSE IF SplitHead(line, s_slashes) \in UrlProtocols
                   THEN do_link(S1, nick, line, linenum, time_)
                   ELSE S1
        S3 == save(S2, TRUE)
    IN IF S2.raised # "none" THEN S2
       ELSE IF S3.raised # "none" THEN S3
       ELSE IF ballot_RE(line) THEN doCastVote(S3, nick, line, FALSE)
       ELSE S3

\* "command, line = matchobj.groups('')" and the call of the do_ method when
\* there is one; else the implicit link
addline_command(S1, nick, line, time_) ==
    IF command_RE(line)
    THEN IF lower(CommandName(line)) \in KnownCommands
         THEN Dispatch(S1, lower(CommandName(line)), nick, CommandPayload(line),
                       Len(S1.lines), time_)
         ELSE S1
    ELSE IF SplitHead(line, s_slashes) \in UrlProtocols
         THEN do_link(S1, nick, line, Len(S1.lines), time_)
         ELSE S1

\* the ballot test on the rebound line, after the save
addline_cast(S3, nick, payload) ==
    IF S3.raised # "none" THEN S3
    ELSE IF ballot_RE(payload) THEN doCastVote(S3, nick, payload, FALSE)
    ELSE S3

\* "self.save(realtime_update=True)" after the command
addline_save(S2, nick, payload) ==
    IF S2.raised # "none" THEN S2 ELSE addline_cast(save(S2, TRUE), nick, payload)

\* Meeting.addline.  An exception raised by a save inside the command
\* handler (do_save, do_endmeeting) leaves addline at once.
addline(S, nick, line, isop, time_) ==
    addline_save(addline_command([addrawline(S, nick, line, time_)
                                     EXCEPT !.isop = isop, !.raised = "none"],
                                 nick, line, time_),
                 nick, PayloadOf(line))

-----------------------------------------------------------------------------
(* Replay (meeting.py, Meeting.process_meeting) *)

\* str.split(sep) for a separator of one character
RECURSIVE split(_, _)
split(s, sep) ==
    IF ~Contains(s, <<sep>>) THEN <<s>>
    ELSE <<SubSeq(s, 1, Find(s, <<sep>>) - 1)>> \o split(From(s, Find(s, <<sep>>) + 1), sep)

\* one field of time.strptime: one or two digits, at most max
IsField(f, max) ==
    /\ Len(f) \in 1..2
    /\ \A i \in DOMAIN f : IsDigit(f[i])
    /\ DigitsValue(f, 0) <= max

\* parse_time of process_meeting: "%H:%M", then "%H:%M:%S", else None
parse_time(t) ==
    LET f == split(t, ":")
    IN IF Len(f) = 2 /\ IsField(f[1], 23) /\ IsField(f[2], 59)
       THEN [h |-> DigitsValue(f[1], 0), m |-> DigitsValue(f[2], 0)]
       ELSE IF Len(f) = 3 /\ IsField(f[1], 23) /\ IsField(f[2], 59) /\ IsField(f[3], 61)
       THEN [h |-> DigitsValue(f[1], 0), m |-> DigitsValue(f[2], 0)]
       ELSE NoTime

\* the index after the maximal run from i of characters for which Test holds
RunOver(line, i, Test(_)) ==
    Min({j \in i..(Len(line) + 1) : IF j > Len(line) THEN TRUE ELSE ~Test(line[j])})

\* the common head of both patterns, ^\[?([0-9:]+)\]?\s* : where the time
\* starts, where it ends, and the index after the head
IsTimeChar(c) == IsDigit(c) \/ c = ":"
TimeStart(line) == IF line # <<>> /\ line[1] = "[" THEN 2 ELSE 1
TimeEnd(line) == RunOver(line, TimeStart(line), IsTimeChar)
AfterTime(line) ==
    RunOver(line,
            IF TimeEnd(line) <= Len(line) /\ line[TimeEnd(line)] = "]"
            THEN TimeEnd(line) + 1 ELSE TimeEnd(line),
            IsSpace)

NoMatch == [ok |-> FALSE, time |-> <<>>, nick |-> <<>>, text |-> <<>>]

\* Config.logline_RE: ^\[?([0-9:]+)\]?\s*<[@%&+ ]?([^>]+)>\s*(.*?)\s*$
logline_RE(line) ==
    LET p == AfterTime(line)
        q == IF Contains(From(line, p), <<">">>) THEN p - 1 + Find(From(line, p), <<">">>) ELSE 0
        inner == SubSeq(line, p + 1, q - 1)
    IN IF /\ TimeEnd(line) > TimeStart(line)
          /\ p <= Len(line)
          /\ line[p] = "<"
          /\ q > p + 1
       THEN [ok |-> TRUE,
             time |-> SubSeq(line, TimeStart(line), TimeEnd(line) - 1),
             nick |-> IF Len(inner) >= 2 /\ inner[1] \in {"@", "%", "&", "+", " "}
                      THEN Tail(inner) ELSE inner,
             text |-> strip(From(line, q + 1))]
       ELSE NoMatch

\* Config.loglineAction_RE: ^\[?([0-9:]+)\]?\s*\*\s*(\S+)\s*(.*?)\s*$
IsNonSpace(c) == ~IsSpace(c)
loglineAction_RE(line) ==
    LET p == AfterTime(line)
        n == RunOver(line, p + 1, IsSpace)
        e == RunOver(line, n, IsNonSpace)
    IN IF /\ TimeEnd(line) > TimeStart(line)
          /\ p <= Len(line)
          /\ line[p] = "*"
          /\ n <= Len(line)
       THEN [ok |-> TRUE,
             time |-> SubSeq(line, TimeStart(line), TimeEnd(line) - 1),
             nick |-> SubSeq(line, n, e - 1),
             text |-> strip(From(line, e))]
       ELSE NoMatch

\* "if not time_: time_ = time.localtime()" of addline, for a replayed time
\* that parse_time could not read
TimeOrNow(t) == IF parse_time(t) = NoTime THEN localtime ELSE parse_time(t)

\* the addline calls of one iteration of "for line in content.split('\n')",
\* in order: one for a spoken line, one for a /me line.  The name line is
\* rebound to the text of a spoken line before the /me pattern is tried, so
\* the /me pattern is matched against that text.
line_calls(line) ==
    LET m1 == logline_RE(line)
        m2 == loglineAction_RE(IF m1.ok THEN m1.text ELSE line)
    IN (IF m1.ok
        THEN <<[nick |-> m1.nick, line |-> m1.text, time |-> m1.time]>>
        ELSE <<>>)
       \o (IF m2.ok
           THEN <<[nick |-> m2.nick, line |-> s_ACTION \o <<" ">> \o m2.text,
                   time |-> m2.time]>>
           ELSE <<>>)

\* the calls made in order; an exception that leaves one ends the iteration
RECURSIVE addlines(_, _)
addlines_rest(S1, calls) ==
    IF S1.raised # "none" THEN S1 ELSE addlines(S1, calls)

addlines(S, calls) ==
    IF calls = <<>> THEN S
    ELSE addlines_rest(addline(S, Head(calls).nick, Head(calls).line, FALSE,
                               TimeOrNow(Head(calls).time)),
                       Tail(calls))

process_line(S, line) == addlines(S, line_calls(line))

-----------------------------------------------------------------------------
(* Reference names of the ReST writer (items.py, writers.py) *)

IndexError == <<"IndexError">>

\* inbase(i, chars='abcdefghijklmnopqrstuvwxyz', place): chars[mod] raises
\* IndexError when mod is not below len(chars)
\* inbase as it would be with the least significant letter first
RECURSIVE inbase_lsdfirst(_, _)
inbase_lsdfirst(i, place) ==
    LET div == i \div (Len(Lowercase) ^ (place + 1))
        mod == i % (Len(Lowercase) ^ (place + 1))
    IN IF mod >= Len(Lowercase) THEN IndexError
       ELSE IF div = 0 THEN <<Lowercase[mod + 1]>>
       ELSE LET high == inbase_lsdfirst(div, place + 1)
            IN IF high = IndexError THEN IndexError
               ELSE <<Lowercase[mod + 1]>> \o high

RECURSIVE inbase(_, _)
inbase(i, place) ==
    LET div == i \div (Len(Lowercase) ^ (place + 1))
        mod == i % (Len(Lowercase) ^ (place + 1))
    IN IF mod >= Len(Lowercase) THEN IndexError
       ELSE IF div = 0 THEN <<Lowercase[mod + 1]>>
       ELSE LET high == inbase(div, place + 1)
            IN IF high = IndexError THEN IndexError
               ELSE high \o <<Lowercase[mod + 1]>>

\* the name makeRSTref tries first
rstref_orig(m) ==
    IF m.nick[Len(m.nick)] = "_" THEN m.nick \o m.time
    ELSE m.nick \o <<"-">> \o m.time

\* makeRSTref as it would be without the while loop
makeRSTref_nocheck(refs, m) == rstref_orig(m)

\* _BaseItem.makeRSTref: the name it returns, or IndexError.  The while loop
\* tries rstref_orig + inbase(count) for count = 0, 1, ... and stops at the
\* first count whose name is free or whose inbase raises; with n names taken
\* that count is at most n unless two counts give the same name (NoName).
makeRSTref(refs, m) ==
    LET orig == rstref_orig(m)
        stop == {count \in 0..Cardinality(refs) :
                    \/ inbase(count, 0) = IndexError
                    \/ (orig \o inbase(count, 0)) \notin refs}
    IN IF orig \notin refs THEN orig
       ELSE IF stop = {} THEN <<"NoName">>
       ELSE IF inbase(Min(stop), 0) = IndexError THEN IndexError
       ELSE orig \o inbase(Min(stop), 0)

\* the start of ReST.format: M.rst_urls = []; M.rst_refs = {}
RSTStart(S) == [S EXCEPT !.rst_urls = <<>>, !.rst_refs = {}]

\* m.rst(M) for minutes[i]: self.rstref = self.makeRSTref(M), which appends
\* the target line ".. _<rstref>: <log>#l-<linenum>" and marks the name taken
\* raised is TRUE when makeRSTref raised IndexError: nothing was assigned
RSTItem(S, i) ==
    LET m == S.minutes[i]
        ref == makeRSTref(S.rst_refs, m)
    IN IF ref = IndexError THEN [raised |-> TRUE, S |-> S]
       ELSE [raised |-> FALSE,
             S |-> [S EXCEPT !.rst_urls = Append(@, [ref |-> ref, anchor |-> m.linenum]),
                             !.rst_refs = @ \cup {ref},
                             !.minutes[i].rstref = ref]]

\* the end of the item loop: the document's list of targets is written;
\* del M.rst_urls, M.rst_refs
RSTFinish(S) ==
    [S EXCEPT !.files = DictSet(@, ".rst", [MeetingURLs |-> S.rst_urls]),
              !.rst_urls = <<>>, !.rst_refs = {}]

-----------------------------------------------------------------------------
(* Inputs: nicks, times and submitted lines *)

alice == <<"a", "l", "i", "c", "e">>
bob == <<"b", "o", "b">>
carol == <<"c", "a", "r", "o", "l">>
bobU == <<"b", "o", "b", "_">>
meetbot == <<"m", "e", "e", "t", "b", "o", "t">>
s_old == <<"o", "l", "d">>
l_startmeeting == <<"#", "s", "t", "a", "r", "t", "m", "e", "e", "t", "i", "n", "g">>
l_topic == <<"#", "t", "o", "p", "i", "c", " ", "T", "1">>
l_subtopic == <<"#", "s", "u", "b", "t", "o", "p", "i", "c", " ", "S", "1">>
l_progress == <<"#", "p", "r", "o", "g", "r", "e", "s", "s", " ", "S", "2">>
l_meetingtopic == <<"#", "m", "e", "e", "t", "i", "n", "g", "t", "o", "p", "i", "c", " ", "Q", "4">>
l_save == <<"#", "s", "a", "v", "e">>
l_done == <<"#", "d", "o", "n", "e", " ", "d", "1">>
l_agreed == <<"#", "a", "g", "r", "e", "e", "d", " ", "+", "1", " ", "o", "k">>
l_accepted == <<"#", "a", "c", "c", "e", "p", "t", "e", "d", " ", "x">>
l_rejected == <<"#", "r", "e", "j", "e", "c", "t", "e", "d", " ", "x">>
l_chair == <<"#", "c", "h", "a", "i", "r", " ", "b", "o", "b">>
l_unchair == <<"#", "u", "n", "c", "h", "a", "i", "r", " ", "b", "o", "b", ",", " ", "a", "l", "i", "c", "e">>
l_undo == <<"#", "u", "n", "d", "o">>
l_restrictlogs == <<"#", "r", "e", "s", "t", "r", "i", "c", "t", "l", "o", "g", "s">>
l_lurk == <<"#", "l", "u", "r", "k">>
l_unlurk == <<"#", "u", "n", "l", "u", "r", "k">>
l_meetingname == <<"#", "m", "e", "e", "t", "i", "n", "g", "n", "a", "m", "e", " ", "T", "e", "a", "m", " ", "S", "y", "n", "c">>
l_vote == <<"#", "v", "o", "t", "e", " ", "P">>
l_votesrequired == <<"#", "v", "o", "t", "e", "s", "r", "e", "q", "u", "i", "r", "e", "d", " ", "2">>
l_endvote == <<"#", "e", "n", "d", "v", "o", "t", "e">>
l_voters == <<"#", "v", "o", "t", "e", "r", "s", " ", "b", "o", "b">>
l_endmeeting == <<"#", "e", "n", "d", "m", "e", "e", "t", "i", "n", "g">>
l_action == <<"#", "a", "c", "t", "i", "o", "n", " ", "b", "o", "b", " ", "a", "1">>
l_info == <<"#", "i", "n", "f", "o", " ", "x">>
l_nick == <<"#", "n", "i", "c", "k", " ", "c", "a", "r", "o", "l">>
l_link == <<"#", "l", "i", "n", "k", " ", "h", "t", "t", "p", ":", "/", "/", "x", " ", "y">>
l_commands == <<"#", "c", "o", "m", "m", "a", "n", "d", "s">>
l_unknown == <<"#", "f", "o", "o", " ", "x">>
l_bracket == <<"[", "i", "n", "f", "o", "]", " ", "x">>
l_hello == <<"h", "e", "l", "l", "o">>
l_url == <<"h", "t", "t", "p", ":", "/", "/", "x", " ", "y">>
l_plus == <<"+", "1">>
l_minus == <<"-", "1">>
l_zero == <<"0">>
l_me == <<"A", "C", "T", "I", "O", "N", " ", "w", "a", "v", "e", "s">>
l_vr1 == <<"#", "v", "o", "t", "e", "s", "r", "e", "q", "u", "i", "r", "e", "d", " ", "1">>
l_vrneg == <<"#", "v", "o", "t", "e", "s", "r", "e", "q", "u", "i", "r", "e", "d", " ", "-", "1">>
l_voteQ == <<"#", "v", "o", "t", "e", " ", "Q">>
l_everyone == <<"#", "v", "o", "t", "e", "r", "s", " ", "e", "v", "e", "r", "y", "o", "n", "e">>
l_everybody == <<"#", "v", "o", "t", "e", "r", "s", " ", "e", "v", "e", "r", "y", "b", "o", "d", "y">>
l_all == <<"#", "v", "o", "t", "e", "r", "s", " ", "a", "l", "l">>
l_vrbad == <<"#", "v", "o", "t", "e", "s", "r", "e", "q", "u", "i", "r", "e", "d", " ", "m", "a", "n", "y">>
s_P == <<"P">>

Now == [h |-> 10, m |-> 0]
Later == [h |-> 10, m |-> 1]

\* one line of every kind: each command, an unknown command, the bracket
\* form, speech, an implicit link, ballots and a /me action
Lines ==
    {l_topic, l_subtopic, l_progress, l_meetingtopic, l_save, l_done, l_agreed,
     l_accepted, l_rejected, l_chair, l_unchair, l_undo, l_restrictlogs, l_lurk,
     l_unlurk, l_meetingname, l_vote, l_votesrequired, l_endvote, l_voters,
     l_endmeeting, l_action, l_info, l_nick, l_link, l_commands, l_unknown,
     l_bracket, l_hello, l_url, l_plus, l_me}

\* the lines of Lines that name a command for chairs only
ChairLines == {l \in Lines : command_RE(l) /\ lower(CommandName(l)) \in ChairCommands}

\* the lines the owner submits to the live session of Spec
OwnerLines ==
    {l_topic, l_action, l_chair, l_undo, l_vote, l_votesrequired, l_endvote,
     l_voters, l_lurk, l_endmeeting}
\* the lines bob submits while he is flagged channel operator
OpLines == {l_topic, l_endvote}

\* the lines of the minutes-only session
MinutesLines == {l_topic, l_subtopic, l_action, l_save}

\* ballots sent to the bot in a private message
PrivateVotes == {<<carol, l_minus>>}

-----------------------------------------------------------------------------
(* Sessions *)

\* a script is a sequence of <<nick, line, time_>>, submitted in order
RECURSIVE Run(_, _)
Run(S, script) ==
    IF script = <<>> THEN S
    ELSE Run(addline(S, script[1][1], script[1][2], FALSE, script[1][3]), Tail(script))

\* MeetBot.doPrivmsg on '#startmeeting': the Meeting is constructed with the
\* sender as owner, and the line is submitted to it
Started == addline(Meeting(alice, meetbot, TRUE, s_old), alice, l_startmeeting, FALSE, Now)

\* a message: "channel" is handled by doPrivmsg, "bot" by outFilter and
\* "private" by vote
Msg(kind, nick, line, isop) == [kind |-> kind, nick |-> nick, line |-> line, isop |-> isop]

Idle == [state |-> "idle", pos |-> 0, n |-> 0]
\* no transcript is being replayed
NoReplay == [content |-> <<>>, pos |-> 0]

Init ==
    /\ M = Started
    /\ msg = Msg("channel", alice, l_startmeeting, FALSE)
    /\ pass = Idle
    /\ replay = NoReplay
    /\ meeting_cache = <<>>

\* MeetBot.doPrivmsg: a line of the channel reaches M.addline while the
\* meeting is not over
AddLine(nick, line, isop, limit) ==
    /\ ~M.meetingIsOver
    /\ Len(M.lines) < limit + 1
    /\ M' = addline(M, nick, line, isop, Now)
    /\ msg' = Msg("channel", nick, line, isop)
    /\ UNCHANGED <<pass, replay, meeting_cache>>

\* MeetBot.outFilter: a message of the bot itself is logged with addrawline
AddRawLine(line, limit) ==
    /\ ~M.meetingIsOver
    /\ Len(M.lines) < limit + 1
    /\ M' = addrawline(M, M.botNick, line, Now)
    /\ msg' = Msg("bot", M.botNick, line, FALSE)
    /\ UNCHANGED <<pass, replay, meeting_cache>>

\* MeetBot.vote: a ballot sent in a private message
PrivateVote(nick, vote) ==
    /\ ~M.meetingIsOver
    /\ ballot_RE(vote) = TRUE
    /\ M' = doCastVote(M, nick, vote, TRUE)
    /\ msg' = Msg("private", nick, vote, FALSE)
    /\ UNCHANGED <<pass, replay, meeting_cache>>

OwnerLine == \E line \in OwnerLines : AddLine(alice, line, FALSE, MaxLines)
GuestLine == \E line \in Lines : AddLine(bob, line, FALSE, MaxLines)
OpLine == \E line \in OpLines : AddLine(bob, line, TRUE, MaxLines)
BotEcho == AddRawLine(l_hello, MaxLines)
PrivateBallot == \E pv \in PrivateVotes : PrivateVote(pv[1], pv[2])

Next == OwnerLine \/ GuestLine \/ OpLine \/ BotEcho \/ PrivateBallot

Spec == Init /\ [][Next]_vars

\* the transcript entry of a line that is no /me action, submitted at Now
LogLine(nick, line) == strftime(Now) \o <<" ", "<">> \o nick \o <<">", " ">> \o line

-----------------------------------------------------------------------------
(* Claims about the live session (Spec) *)

\* C1: every line of the channel that reaches addline appends exactly one
\* entry to the transcript and leaves the earlier entries as they were,
\* whether the line is a recognized command, an unrecognized command, an
\* implicit link, a ballot or speech.
C1_OneEntryPerLine ==
    [][msg'.kind = "channel" =>
          /\ Len(M'.lines) = Len(M.lines) + 1
          /\ SubSeq(M'.lines, 1, Len(M.lines)) = M.lines]_vars

\* a session in which an unknown command and then an implicit link were
\* submitted: three transcript entries, one minute item
C1_Witness ==
    /\ M.lines = <<LogLine(alice, l_startmeeting), LogLine(bob, l_unknown),
                   LogLine(bob, l_url)>>
    /\ Len(M.minutes) = 1
    /\ msg = Msg("channel", bob, l_url, FALSE)

\* the attributes a refused chair command must leave alone
Frame(S) ==
    [minutes |-> S.minutes, owner |-> S.owner, chairs |-> S.chairs,
     voters |-> S.voters, currenttopic |-> S.currenttopic,
     meetingTopic |-> S.meetingTopic, meetingname |-> S.meetingname,
     votesrequired |-> S.votesrequired, activeVote |-> S.activeVote,
     votes |-> S.votes, lurk |-> S.lurk, meetingIsOver |-> S.meetingIsOver]

\* C2: a chair-only command submitted by a nick that is not the owner, not in
\* the chair set and not flagged operator adds no minute item and changes
\* none of owner, chairs, voters, current topic, meeting title, meeting name,
\* required margin, open proposal, stored vote results, lurk flag, over flag.
C2_NonChairNoEffect ==
    [][(/\ msg'.kind = "channel"
        /\ msg'.line \in ChairLines
        /\ ~msg'.isop
        /\ msg'.nick # M.owner
        /\ ~DictHas(M.chairs, msg'.nick))
       => Frame(M') = Frame(M)]_vars

\* bob, who is no chair, has submitted '#endvote' while alice's vote is open,
\* and the round is still open
C2_Witness ==
    /\ msg = Msg("channel", bob, l_endvote, FALSE)
    /\ M.lines = <<LogLine(alice, l_startmeeting), LogLine(alice, l_vote),
                   LogLine(bob, l_endvote)>>
    /\ ~DictHas(M.chairs, bob)
    /\ M.activeVote = s_P
    /\ M.minutes = <<>>

\* C13: every minute item's line number n is at least 1 and at most the
\* length of the transcript, and entry n is the line whose processing created
\* the item: an item that a step appends carries the number of the entry the
\* step appended, which is the entry of the submitted line; the number of an
\* item never changes afterwards and no entry is changed or removed; entry n
\* was submitted by the item's author.  This holds for the VoteResult item
\* that '#endmeeting' appends when it closes an open round.
C13_ItemsPointAtTheirLine ==
    [][/\ \A i \in DOMAIN M'.minutes :
             LET m == M'.minutes[i]
             IN /\ m.linenum \in 1..Len(M'.lines)
                /\ SubSeq(M'.lines[m.linenum], 6, 8 + Len(m.nick))
                       = <<" ", "<">> \o m.nick \o <<">">>
                /\ i > Len(M.minutes) =>
                       /\ m.linenum = Len(M'.lines)
                       /\ msg'.kind = "channel"
                       /\ M'.lines[m.linenum] = LogLine(msg'.nick, msg'.line)
                /\ i <= Len(M.minutes) => m.linenum = M.minutes[i].linenum
       /\ SubSeq(M'.lines, 1, Len(M.lines)) = M.lines]_vars

\* alice opened a round and ended the meeting: the VoteResult item carries
\* the number of the '#endmeeting' line
C13_Witness ==
    /\ M.meetingIsOver
    /\ M.lines = <<LogLine(alice, l_startmeeting), LogLine(alice, l_vote),
                   LogLine(alice, l_endmeeting)>>
    /\ Len(M.minutes) = 1
    /\ M.minutes[1].itemtype = "VOTE"
    /\ M.minutes[1].linenum = 3

-----------------------------------------------------------------------------
(* The minutes-only session: the owner submits topics, subtopics and actions,
   and saves *)

MinutesLine == \E line \in MinutesLines : AddLine(alice, line, FALSE, MaxItemLines)

SpecMinutes == Init /\ [][MinutesLine]_vars

\* the 'Meeting summary' block of the summary written last, as its tokens
SavedItems ==
    IF DictHas(M.files, ".html")
    THEN DictGet(M.files, ".html", [MeetingItems |-> <<>>]).MeetingItems
    ELSE <<>>

\* how many of the first k tokens carry one of the tags
CountTags(toks, k, tags) == Cardinality({i \in 1..k : toks[i].tag \in tags})

\* levels open after the first k tokens
OpenLevels(toks, k) ==
    CountTags(toks, k, {"<ol>", "<li>"}) - CountTags(toks, k, {"</ol>", "</li>"})

Balanced(toks) ==
    /\ CountTags(toks, Len(toks), {"<ol>"}) = CountTags(toks, Len(toks), {"</ol>"})
    /\ CountTags(toks, Len(toks), {"<li>"}) = CountTags(toks, Len(toks), {"</li>"})
    /\ \A k \in 0..Len(toks) : OpenLevels(toks, k) >= 0

\* C9: in the summary block of every minute-item sequence the levels opened
\* are as many as the levels closed, lists and entries alike, no level is
\* left open at the end and none is closed that is not open.
C9_Balanced == Balanced(SavedItems)

\* every closing token closes the level opened last among those still open
RECURSIVE ClosesInReverse(_, _)
ClosesInReverse(toks, open) ==
    IF toks = <<>> THEN TRUE
    ELSE LET tok == Head(toks)
         IN IF tok.tag \in {"<ol>", "<li>"}
            THEN ClosesInReverse(Tail(toks), <<tok>> \o open)
            ELSE IF tok.tag \in {"</ol>", "</li>"}
            THEN IF open = <<>> THEN FALSE
                 ELSE IF /\ Head(open).indent = tok.indent
                         /\ Head(open).tag = (IF tok.tag = "</ol>" THEN "<ol>" ELSE "<li>")
                 THEN ClosesInReverse(Tail(toks), Tail(open))
                 ELSE FALSE
            ELSE ClosesInReverse(Tail(toks), open)

\* C10: in the summary block of every minute-item sequence a level that is
\* closed is the most recently opened level still open.  Stated for the
\* blocks that are balanced, so that a missing close is not counted here.
C10_ReverseOrder == Balanced(SavedItems) => ClosesInReverse(SavedItems, <<>>)

-----------------------------------------------------------------------------
(* The vote session: the owner sets the required margin, opens a round on P,
   ballots and speech arrive in the channel, the owner ends the round *)

MarginLines == {l_vr1, l_votesrequired, l_vrneg, l_vrbad}

Ballots ==
    {<<alice, l_plus>>, <<alice, l_minus>>, <<bob, l_plus>>, <<bob, l_hello>>,
     <<carol, l_plus>>, <<carol, l_minus>>, <<carol, l_zero>>}

SetMargin ==
    /\ Len(M.lines) = 1
    /\ \E line \in MarginLines : AddLine(alice, line, FALSE, 1)

OpenVote ==
    /\ M.activeVote = <<>>
    /\ M.votes = <<>>
    /\ AddLine(alice, l_vote, FALSE, 2)

CastBallot ==
    /\ M.activeVote # <<>>
    /\ \E b \in Ballots :
           AddLine(b[1], b[2], FALSE, M.currentVoteStartLine + MaxBallots - 1)

EndVote ==
    /\ M.activeVote # <<>>
    /\ AddLine(alice, l_endvote, FALSE, M.currentVoteStartLine + MaxBallots)

NextVote == SetMargin \/ OpenVote \/ CastBallot \/ EndVote

SpecVote == Init /\ [][NextVote]_vars

\* the stored summary of the round on P, once it is ended
Ended == DictHas(M.votes, s_P)
Summary == DictGet(M.votes, s_P, <<>>)[1]
\* the payload of the VoteResult item the round's end added
ResultLine == M.minutes[Len(M.minutes)].line
Payload(result) == s_P \o <<" ", "(">> \o result \o <<")">>

\* C3: a round that is ended is carried exactly when for - against is at
\* least the required margin and denied otherwise, in the stored summary and
\* in the VoteResult item; one of the two outcomes is always determined.
C3_CarriedIffMargin ==
    Ended =>
        LET carried == Summary.vfor - Summary.vagainst >= M.votesrequired
        IN /\ Summary.motion = (IF carried THEN "Motion carried" ELSE "Motion denied")
           /\ M.minutes[Len(M.minutes)].itemtype = "VOTE"
           /\ ResultLine = Payload(IF carried THEN s_Carried ELSE s_Denied)

\* margin 2, three for and none against: carried
C3_Witness ==
    /\ Ended
    /\ M.votesrequired = 2
    /\ Summary.vfor = 3 /\ Summary.vagainst = 0
    /\ Summary.motion = "Motion carried"
    /\ ResultLine = Payload(s_Carried)

\* C4: a round ended with none for, none against and required margin 0 is a
\* deadlock: the VoteResult payload is "<proposal> (Deadlock)".
C4_DeadlockOnEmptyTie ==
    (Ended /\ Summary.vfor = 0 /\ Summary.vagainst = 0 /\ M.votesrequired = 0) =>
        /\ Summary.motion = "Motion deadlocked"
        /\ ResultLine = Payload(s_Deadlock)

\* the ballot a nick submitted last in the round on P, read from the
\* transcript; <<>> when the nick submitted none
BallotTexts == {l_plus, l_minus, l_zero}
Voters == {alice, bob, carol}
RoundEntries(nick) ==
    {j \in (DictGet(M.votes, s_P, <<>>)[2] + 1)..Len(M.lines) :
        \E b \in BallotTexts : M.lines[j] = LogLine(nick, b)}
LastBallot(nick) ==
    IF RoundEntries(nick) = {} THEN <<>>
    ELSE CHOOSE b \in BallotTexts : M.lines[Max(RoundEntries(nick))] = LogLine(nick, b)

\* C5: when a round is ended every nick counts in at most one of for,
\* against and abstain, and in the one its latest ballot names: an earlier
\* ballot of the same nick in the round is replaced.
C5_LatestBallotCounts ==
    Ended =>
        /\ Summary.vfor = Cardinality({n \in Voters : LastBallot(n) = l_plus})
        /\ Summary.vagainst = Cardinality({n \in Voters : LastBallot(n) = l_minus})
        /\ Summary.vabstain = Cardinality({n \in Voters : LastBallot(n) = l_zero})

\* alice voted +1 and then -1 in the round: she counts against, once
C5_Witness ==
    /\ Ended
    /\ M.lines = <<LogLine(alice, l_startmeeting), LogLine(alice, l_vote),
                   LogLine(alice, l_plus), LogLine(alice, l_minus),
                   LogLine(alice, l_endvote)>>
    /\ Summary.vfor = 0 /\ Summary.vagainst = 1 /\ Summary.vabstain = 0

\* C6: for a round that is ended, for + against + abstain is at most the
\* number of distinct nicks that submitted a ballot matching one of the three
\* patterns in the round; a line matching none of them adds to no counter.
C6_TallyAtMostVoters ==
    Ended =>
        Summary.vfor + Summary.vagainst + Summary.vabstain
            <= Cardinality({n \in Voters : RoundEntries(n) # {}})

\* carol voted twice and bob only spoke: one nick cast a ballot, the counters
\* add to one
C6_Witness ==
    /\ Ended
    /\ M.lines = <<LogLine(alice, l_startmeeting), LogLine(alice, l_vote),
                   LogLine(carol, l_plus), LogLine(bob, l_hello),
                   LogLine(carol, l_zero), LogLine(alice, l_endvote)>>
    /\ Summary.vfor + Summary.vagainst + Summary.vabstain = 1

-----------------------------------------------------------------------------
(* Render passes of the ReST writer over a session's minutes *)

\* the lines that add the items of the rendered sessions
RefInputs == {<<alice, l_info, Now>>, <<alice, l_info, Later>>,
              <<bobU, l_info, Now>>, <<bobU, l_info, Later>>}

\* scripts of at most MaxMixed lines whose times do not go back
MixedScripts ==
    {s \in UNION {[1..k -> RefInputs] : k \in 0..MaxMixed} :
        \A i \in 1..(Len(s) - 1) : s[i][3].m <= s[i + 1][3].m}

\* the session after alice submitted '#info x' n times within the minute of
\* the start: Run(Started, <<alice, l_info, Now>>, n times), written out
SameSession(n) ==
    LET ls == [i \in 1..(n + 1) |-> IF i = 1 THEN LogLine(alice, l_startmeeting)
                                             ELSE LogLine(alice, l_info)]
    IN [Started EXCEPT !.lines = ls,
                       !.minutes = [i \in 1..n |-> Item("INFO", alice, <<"x">>, i + 1, Now)],
                       !.attendees = DictSet(@, alice, n + 1),
                       !.files = DictSet(@, ".log.txt", ls)]

InitRef ==
    /\ M \in {Run(Started, s) : s \in MixedScripts} \cup {SameSession(MaxSame)}
    /\ msg = Msg("channel", alice, l_startmeeting, FALSE)
    /\ pass = Idle
    /\ replay = NoReplay
    /\ meeting_cache = <<>>

\* ReST.format is entered
RSTBeginPass ==
    /\ pass.state # "running"
    /\ pass.n < MaxPasses
    /\ M' = RSTStart(M)
    /\ pass' = [state |-> "running", pos |-> 0, n |-> pass.n + 1]
    /\ UNCHANGED <<msg, replay, meeting_cache>>

\* one iteration of "for m in M.minutes": m.rst(M); an IndexError of inbase
\* leaves format
RSTNextItem ==
    /\ pass.state = "running"
    /\ pass.pos < Len(M.minutes)
    /\ LET r == RSTItem(M, pass.pos + 1)
       IN /\ M' = r.S
          /\ pass' = IF r.raised THEN [pass EXCEPT !.state = "IndexError"]
                     ELSE [pass EXCEPT !.pos = @ + 1]
    /\ UNCHANGED <<msg, replay, meeting_cache>>

\* the loop is over: the targets are joined into the document
RSTEndPass ==
    /\ pass.state = "running"
    /\ pass.pos = Len(M.minutes)
    /\ M' = RSTFinish(M)
    /\ pass' = [pass EXCEPT !.state = "done"]
    /\ UNCHANGED <<msg, replay, meeting_cache>>

NextRef == RSTBeginPass \/ RSTNextItem \/ RSTEndPass

SpecRef == InitRef /\ [][NextRef]_vars

\* the items all ask for the name of the first: one nick, one minute
SameName ==
    \A i \in DOMAIN M.minutes : /\ M.minutes[i].nick = M.minutes[1].nick
                                /\ M.minutes[i].time = M.minutes[1].time

\* the suffix of collision counter k, for k up to 675: one letter below 26,
\* else the letter of k \div 26 followed by the letter of k % 26
Suffix(k) ==
    IF k < 26 THEN <<Lowercase[k + 1]>>
    ELSE <<Lowercase[(k \div 26) + 1], Lowercase[(k % 26) + 1]>>

C8_DistinctPerPass ==
    [][/\ Cardinality({M'.rst_urls[j].ref : j \in DOMAIN M'.rst_urls}) = Len(M'.rst_urls)
       /\ pass'.state = "running" =>
              M'.rst_refs = {M'.rst_urls[j].ref : j \in DOMAIN M'.rst_urls}
       /\ (pass.state # "running" /\ pass'.state = "running") =>
              (M'.rst_refs = {} /\ M'.rst_urls = <<>>)
       /\ (pass.n > 1 /\ pass'.pos = pass.pos + 1) =>
              M'.minutes[pass'.pos].rstref = M.minutes[pass'.pos].rstref
       /\ (pass.n > 1 /\ pass'.state = "done") =>
              DictGet(M'.files, ".rst", <<>>) = DictGet(M.files, ".rst", <<>>)]_vars

\* a second pass over three items of one name has allocated the three names
\* the first pass wrote
C8_Witness ==
    /\ pass.n = 2 /\ pass.state = "running" /\ pass.pos = 3
    /\ SameName /\ Len(M.minutes) = 3
    /\ Cardinality({M.rst_urls[j].ref : j \in DOMAIN M.rst_urls}) = 3
    /\ M.rst_urls = DictGet(M.files, ".rst", [MeetingURLs |-> <<>>]).MeetingURLs

-----------------------------------------------------------------------------
(* Replay of a transcript: MeetBot.doPrivmsg on '#replay <url>' constructs a
   Meeting without owner and lets process_meeting read the transcript *)

\* the lines of the replayed transcripts, as addrawline writes them, and one
\* line that matches neither pattern
ReplayLines ==
    {LogLine(alice, l_endmeeting), LogLine(bob, l_info), LogLine(alice, l_topic),
     addrawline(Meeting(alice, meetbot, TRUE, s_old), bob, l_me, Now).lines[1],
     l_hello}

\* transcripts that start with the '#startmeeting' of alice
ReplayContents ==
    {<<LogLine(alice, l_startmeeting)>> \o c :
        c \in UNION {[1..k -> ReplayLines] : k \in 0..MaxReplay}}

InitReplay ==
    /\ M = [Meeting(<<>>, <<>>, TRUE, s_old) EXCEPT !.setTopic = FALSE]
    /\ msg = Msg("channel", alice, <<"#", "r", "e", "p", "l", "a", "y", " ", "u">>, FALSE)
    /\ pass = Idle
    /\ replay \in {[content |-> c, pos |-> 0] : c \in ReplayContents}
    /\ meeting_cache = <<>>

\* one iteration of the loop of process_meeting
ReplayLine ==
    /\ replay.pos < Len(replay.content)
    /\ M' = process_line(M, replay.content[replay.pos + 1])
    /\ replay' = [replay EXCEPT !.pos = @ + 1]
    /\ UNCHANGED <<msg, pass, meeting_cache>>

SpecReplay == InitReplay /\ [][ReplayLine]_vars

\* C11: once the over flag is set by an end command, no later line submitted
\* to the session, the remaining lines of a replayed transcript included,
\* changes the minute-item sequence.
C11_NoItemAfterOver == [][M.meetingIsOver => M'.minutes = M.minutes]_vars

-----------------------------------------------------------------------------
(* The roles session: the owner and bob add and remove chairs and voters,
   add items, run a vote round and undo *)

AliceRole ==
    \E line \in {l_topic, l_action, l_chair, l_unchair, l_voters, l_vote, l_endvote, l_undo} :
        AddLine(alice, line, FALSE, MaxRoleLines)
BobRole ==
    \E line \in {l_unchair, l_undo, l_topic, l_plus} :
        AddLine(bob, line, FALSE, MaxRoleLines)

NextRoles == AliceRole \/ BobRole

SpecRoles == Init /\ [][NextRoles]_vars

\* C12: the owner passes the chair check in every state, and after any
\* sequence of chair and unchair commands (an unchair that names the owner
\* among them) a chair-only command of the owner has its effect: '#topic'
\* appends its item and sets the topic, '#chair' and '#voters' add the nick
\* they name, '#unchair' removes it, '#vote' leaves a round open, '#endvote'
\* closes the round and appends its result, '#undo' removes an item.
C12_OwnerAlwaysChair ==
    [][/\ M'.owner = alice
       /\ isChair(M', M'.owner)
       /\ (msg'.kind = "channel" /\ msg'.nick = M.owner) =>
             /\ msg'.line = l_topic =>
                   /\ M'.minutes = Append(M.minutes,
                                          Item("TOPIC", alice, <<"T", "1">>, Len(M'.lines), Now))
                   /\ M'.currenttopic = <<"T", "1">>
             /\ msg'.line = l_chair => DictHas(M'.chairs, bob)
             /\ msg'.line = l_unchair => ~DictHas(M'.chairs, bob)
             /\ msg'.line = l_voters => DictHas(M'.voters, bob)
             /\ msg'.line = l_vote => M'.activeVote = s_P
             /\ msg'.line = l_endvote =>
                   /\ M'.activeVote = <<>>
                   /\ M.activeVote # <<>> => Len(M'.minutes) = Len(M.minutes) + 1
             /\ msg'.line = l_undo =>
                   Len(M'.minutes) = (IF M.minutes = <<>> THEN 0 ELSE Len(M.minutes) - 1)]_vars

\* bob, made chair by alice, has submitted '#unchair bob, alice'; the
\* '#topic' alice submitted next has appended its item
C12_Witness ==
    /\ M.lines = <<LogLine(alice, l_startmeeting), LogLine(alice, l_chair),
                   LogLine(bob, l_unchair), LogLine(alice, l_topic)>>
    /\ M.chairs = <<>>
    /\ M.owner = alice
    /\ M.minutes = <<Item("TOPIC", alice, <<"T", "1">>, 4, Now)>>

\* the session without what submitting any line changes (the transcript, the
\* attendee counts, the operator flag, the raw log written) and without its
\* minutes
Beside(S) ==
    [S EXCEPT !.lines = <<>>, !.attendees = <<>>, !.isop = FALSE, !.files = <<>>,
              !.minutes = <<>>]

\* C20: '#undo' by a chair removes the last minute item and no other, keeps
\* the transcript entries there were and adds the one of the undo line, and
\* leaves chairs, voters, the vote state, the stored vote results and every
\* other attribute alone; with no minute item it changes none of these.
C20_UndoRemovesLast ==
    [][(/\ msg'.kind = "channel"
        /\ msg'.line = l_undo
        /\ (msg'.nick = M.owner \/ DictHas(M.chairs, msg'.nick)))
       => /\ M'.minutes = (IF M.minutes = <<>> THEN <<>>
                           ELSE SubSeq(M.minutes, 1, Len(M.minutes) - 1))
          /\ M'.lines = Append(M.lines, LogLine(msg'.nick, l_undo))
          /\ Beside(M') = Beside(M)]_vars

\* alice added a topic and an action and has undone the action
C20_Witness ==
    /\ msg = Msg("channel", alice, l_undo, FALSE)
    /\ M.lines = <<LogLine(alice, l_startmeeting), LogLine(alice, l_topic),
                   LogLine(alice, l_action), LogLine(alice, l_undo)>>
    /\ M.minutes = <<Item("TOPIC", alice, <<"T", "1">>, 2, Now)>>

-----------------------------------------------------------------------------
(* The save session: lines arrive, the owner saves, and a writer may be
   failing (its format or writeToFile raises) *)

\* a session constructed with and without the raw log
InitSave ==
    /\ M \in {addline([Meeting(alice, meetbot, TRUE, s_old) EXCEPT !.writeRawLog = b],
                       alice, l_startmeeting, FALSE, Now) : b \in BOOLEAN}
    /\ msg = Msg("channel", alice, l_startmeeting, FALSE)
    /\ pass = Idle
    /\ replay = NoReplay
    /\ meeting_cache = <<>>

SaveLine ==
    \E nl \in {<<bob, l_hello>>, <<alice, l_action>>, <<alice, l_topic>>, <<alice, l_save>>} :
        AddLine(nl[1], nl[2], FALSE, MaxSaveLines)

\* a writer starts to fail, or the failing one works again
BreakWriter ==
    /\ \E extension \in {"none", ".log.txt", ".log.html", ".html"} :
           /\ M.broken # extension
           /\ M' = [M EXCEPT !.broken = extension]
    /\ UNCHANGED <<msg, pass, replay, meeting_cache>>

NextSave == SaveLine \/ BreakWriter

SpecSave == InitSave /\ [][NextSave]_vars

\* C14: rendering leaves the stored items as they are: after a save, every
\* minute item has the fields and values it had before (the session of this
\* specification removes no item).
C14_RenderKeepsItems ==
    [][\A i \in DOMAIN M.minutes : M'.minutes[i] = M.minutes[i]]_vars

\* the file a writer wrote last, <<>> when it wrote none
File(S, extension) == DictGet(S.files, extension, <<>>)

\* C15: in a save of a session with the raw log enabled the raw transcript
\* is written before any other writer runs: when the handling of a line has
\* written another file, or has ended with the exception of another writer,
\* the raw log on disk is the transcript as it is after that line.
C15_RawLogFirst ==
    [][(M.writeRawLog /\ M'.lines # M.lines) =>
          /\ (\E e \in {".log.html", ".html"} : File(M', e) # File(M, e)) =>
                 File(M', ".log.txt") = TextLog(M')
          /\ M'.raised \in {".log.html", ".html"} =>
                 File(M', ".log.txt") = TextLog(M')]_vars

\* '#save' ended with the exception of the summary writer; the raw log and
\* the browsable log of that save are on disk
C15_Witness ==
    /\ M.writeRawLog
    /\ M.raised = ".html"
    /\ M.lines = <<LogLine(alice, l_startmeeting), LogLine(alice, l_action),
                   LogLine(alice, l_save)>>
    /\ File(M, ".log.txt") = M.lines
    /\ Len(File(M, ".log.html")) = 3
    /\ ~DictHas(M.files, ".html")

-----------------------------------------------------------------------------
(* The rounds session: the owner opens and ends rounds and sets the eligible
   voters at any time; ballots arrive in the channel and in private messages,
   a round open or not *)

EveryoneLines == {l_everyone, l_everybody, l_all}

RoundCommand ==
    \E line \in {l_vote, l_voteQ, l_endvote, l_voters} \cup EveryoneLines :
        AddLine(alice, line, FALSE, MaxRoundLines)
RoundBallot ==
    \E b \in {<<alice, l_plus>>, <<bob, l_plus>>, <<carol, l_minus>>} :
        AddLine(b[1], b[2], FALSE, MaxRoundLines)

NextRound == RoundCommand \/ RoundBallot \/ PrivateBallot

SpecRound == Init /\ [][NextRound]_vars

\* the round of a session: proposal, ballot map, public-cast lists, opening
\* line number
Round(S) ==
    [activeVote |-> S.activeVote, currentVote |-> S.currentVote,
     publicVoters |-> S.publicVoters, currentVoteStartLine |-> S.currentVoteStartLine]

\* the message is a ballot: a private vote, or a line of the channel that is
\* no command and matches the ballot pattern
IsBallot(m) ==
    IF m.kind = "private" THEN TRUE
    ELSE m.kind = "channel" /\ ~command_RE(m.line) /\ ballot_RE(m.line)

\* C16: '#vote' by a chair while a round is open leaves the round as it is:
\* proposal, ballot map, public-cast lists and opening line number; it adds
\* no item and changes nothing else.  The proposal of a session changes only
\* from none to one and from one to none, so at most one round is open.
C16_VoteWhileOpen ==
    [][/\ (/\ msg'.kind = "channel"
           /\ msg'.line \in {l_vote, l_voteQ}
           /\ M.activeVote # <<>>
           /\ M'.lines # M.lines)
          => (Round(M') = Round(M) /\ M'.minutes = M.minutes /\ Beside(M') = Beside(M))
       /\ M'.activeVote # M.activeVote => (M.activeVote = <<>> \/ M'.activeVote = <<>>)]_vars

\* '#vote Q' arrived while the round on P was open with the ballot of bob
C16_Witness ==
    /\ M.lines = <<LogLine(alice, l_startmeeting), LogLine(alice, l_vote),
                   LogLine(bob, l_plus), LogLine(alice, l_voteQ)>>
    /\ Round(M) = [activeVote |-> s_P, currentVote |-> <<(<<bob, l_plus>>)>>,
                   publicVoters |-> <<(<<s_P, <<bob>> >>)>>, currentVoteStartLine |-> 2]

\* C17: a ballot, public or private, that arrives while no round is open
\* changes no vote state: the ballot map, the public-cast lists and the
\* stored results stay as they are and no round opens; and a round that
\* opens starts with an empty ballot map and an empty public-cast list, so
\* no earlier ballot is carried into it.
C17_BallotWhileClosed ==
    [][/\ (IsBallot(msg') /\ M.activeVote = <<>>)
          => (Round(M') = Round(M) /\ M'.votes = M.votes /\ M'.minutes = M.minutes)
       /\ (M.activeVote = <<>> /\ M'.activeVote # <<>>)
          => /\ M'.currentVote = <<>>
             /\ DictGet(M'.publicVoters, M'.activeVote, <<"?">>) = <<>>]_vars

\* bob voted in the channel and carol in private before alice opened the
\* round on P: the round is open and empty
C17_Witness ==
    /\ M.lines = <<LogLine(alice, l_startmeeting), LogLine(bob, l_plus),
                   LogLine(alice, l_vote)>>
    /\ Round(M) = [activeVote |-> s_P, currentVote |-> <<>>,
                   publicVoters |-> <<(<<s_P, <<>> >>)>>, currentVoteStartLine |-> 3]

\* C18: '#endvote' by a chair while no round is open changes no state of the
\* session: no item is appended, no vote result is stored or altered, the
\* round attributes and every other attribute stay as they are.
C18_EndVoteWhileClosed ==
    [][(/\ msg'.kind = "channel"
        /\ msg'.line = l_endvote
        /\ msg'.nick = M.owner
        /\ M.activeVote = <<>>
        /\ M'.lines # M.lines)
       => (M'.minutes = M.minutes /\ M'.votes = M.votes /\ Beside(M') = Beside(M))]_vars

\* alice ended the round on P and submitted '#endvote' once more: one
\* VoteResult item, one stored result
C18_Witness ==
    /\ msg = Msg("channel", alice, l_endvote, FALSE)
    /\ M.lines = <<LogLine(alice, l_startmeeting), LogLine(alice, l_vote),
                   LogLine(alice, l_endvote), LogLine(alice, l_endvote)>>
    /\ Len(M.minutes) = 1
    /\ Len(M.votes) = 1
    /\ M.minutes[1].linenum = 3

\* C19: in an open round, while the eligible-voter set is empty the ballot of
\* every nick is accepted (it is the nick's entry of the ballot map, and a
\* public one extends the public-cast list by the nick); while the set is
\* not empty the ballot of a nick outside it, the owner included, changes
\* neither; and '#voters' naming everyone, everybody or all empties the set.
C19_EligibleVoters ==
    [][/\ (IsBallot(msg') /\ M.activeVote # <<>> /\ M.voters = <<>>
              /\ (msg'.kind = "channel" => M'.lines # M.lines))
          => /\ DictGet(M'.currentVote, msg'.nick, <<>>) = msg'.line
             /\ DictGet(M'.publicVoters, M.activeVote, <<>>)
                    = (IF msg'.kind = "private"
                       THEN DictGet(M.publicVoters, M.activeVote, <<>>)
                       ELSE Append(DictGet(M.publicVoters, M.activeVote, <<>>), msg'.nick))
       /\ (IsBallot(msg') /\ M.voters # <<>> /\ ~DictHas(M.voters, msg'.nick))
          => Round(M') = Round(M)
       /\ (msg'.kind = "channel" /\ msg'.line \in EveryoneLines /\ msg'.nick = M.owner
              /\ M'.lines # M.lines)
          => M'.voters = <<>>]_vars

\* with bob the only eligible voter, the ballot of alice, the owner, in the
\* open round on P was not recorded
C19_Witness ==
    /\ msg = Msg("channel", alice, l_plus, FALSE)
    /\ M.lines = <<LogLine(alice, l_startmeeting), LogLine(alice, l_voters),
                   LogLine(alice, l_vote), LogLine(alice, l_plus)>>
    /\ DictKeys(M.voters) = {bob}
    /\ Round(M) = [activeVote |-> s_P, currentVote |-> <<>>,
                   publicVoters |-> <<(<<s_P, <<>> >>)>>, currentVoteStartLine |-> 3]

-----------------------------------------------------------------------------
(* Claims about the required margin (SpecMargin) *)

\* payloads of '#votesrequired' with the integer written in each, 0 standing
\* for a payload that is no integer
MarginPayloads ==
    {<<(<<"1">>), 1>>, <<(<<"-", "1">>), 0 - 1>>, <<(<<"+", "2">>), 2>>,
     <<(<<"1", "_", "0">>), 10>>, <<(<<"0", "7">>), 7>>,
     <<(<<>>), 0>>, <<(<<"m", "a", "n", "y">>), 0>>, <<(<<"1", ".", "5">>), 0>>,
     <<(<<"2", "x">>), 0>>, <<(<<"-">>), 0>>, <<(<<"1", "_", "_", "0">>), 0>>}

VotesRequiredLine(payload) ==
    <<"#">> \o s_votesrequired \o (IF payload = <<>> THEN <<>> ELSE <<" ">> \o payload)

ChairMargin ==
    \E p \in MarginPayloads : AddLine(alice, VotesRequiredLine(p[1]), FALSE, MaxMarginLines)
GuestMargin == AddLine(bob, l_votesrequired, FALSE, MaxMarginLines)

NextMargin == ChairMargin \/ GuestMargin

SpecMargin == Init /\ [][NextMargin]_vars

\* C21: after '#votesrequired' by a chair the required margin is the integer
\* written in the payload when the payload is an integer literal and 0 for
\* every other payload, whatever the margin was before; the command is
\* processed (its line is in the transcript) and adds no item.
C21_MarginFromPayload ==
    [][msg'.nick = alice
       => /\ \E p \in MarginPayloads :
                /\ msg'.line = VotesRequiredLine(p[1])
                /\ M'.votesrequired = p[2]
          /\ Len(M'.lines) = Len(M.lines) + 1
          /\ M'.minutes = M.minutes]_vars

\* the margin was 2 and '#votesrequired many' made it 0
C21_Witness ==
    /\ Len(M.lines) = 3
    /\ M.lines[2] = LogLine(alice, VotesRequiredLine(<<"+", "2">>))
    /\ M.lines[3] = LogLine(alice, VotesRequiredLine(<<"m", "a", "n", "y">>))
    /\ M.votesrequired = 0

-----------------------------------------------------------------------------
(* Claims about commands without a method (SpecUnknown) *)

\* lines of the command grammar whose name, lowercased, is no do_ method:
\* '#foo x', '#INFOS', '[bar] +1', '#start_meeting'
UnknownLines ==
    {l_unknown,
     <<"#", "I", "N", "F", "O", "S">>,
     <<"[", "b", "a", "r", "]", " ", "+", "1">>,
     <<"#", "s", "t", "a", "r", "t", "_", "m", "e", "e", "t", "i", "n", "g">>}

UnknownOwner == \E line \in UnknownLines : AddLine(alice, line, FALSE, MaxUnknownLines)
UnknownGuest ==
    \E line \in UnknownLines, isop \in BOOLEAN : AddLine(bob, line, isop, MaxUnknownLines)
UnknownBeside ==
    \E b \in {<<alice, l_vote>>, <<bob, l_info>>} : AddLine(b[1], b[2], FALSE, MaxUnknownLines)

NextUnknown == UnknownOwner \/ UnknownGuest \/ UnknownBeside

SpecUnknown == Init /\ [][NextUnknown]_vars

\* C22: a line of the command grammar that names no known command adds its
\* entry to the transcript and no minute item, whether the owner, a guest or
\* a channel operator sends it, and whether or not its payload is a ballot.
C22_UnknownCommandNoItem ==
    [][msg'.line \in UnknownLines
       => /\ M'.lines = Append(M.lines, LogLine(msg'.nick, msg'.line))
          /\ M'.minutes = M.minutes]_vars

\* bob added an item, then alice and bob as operator sent unknown commands:
\* four transcript entries, the one item
C22_Witness ==
    /\ M.lines = <<LogLine(alice, l_startmeeting), LogLine(bob, l_info),
                   LogLine(alice, l_unknown),
                   LogLine(bob, <<"#", "I", "N", "F", "O", "S">>)>>
    /\ Len(M.minutes) = 1
    /\ M.isop

-----------------------------------------------------------------------------
(* Claims about the attendee counts (Spec) *)

\* the transcript entries of S that record a line of nick, spoken or /me,
\* with the text of each
SpokenPrefix(nick) == strftime(Now) \o <<" ", "<">> \o nick \o <<">", " ">>
ActionPrefix(nick) == strftime(Now) \o <<" ", "*", " ">> \o nick \o <<" ">>
IsLineOf(logline, nick) ==
    \/ Upto(logline, Len(SpokenPrefix(nick))) = SpokenPrefix(nick)
    \/ Upto(logline, Len(ActionPrefix(nick))) = ActionPrefix(nick)
\* the entry records a line of nick that matched the command grammar
IsCommandOf(logline, nick) ==
    /\ Upto(logline, Len(SpokenPrefix(nick))) = SpokenPrefix(nick)
    /\ command_RE(From(logline, Len(SpokenPrefix(nick)) + 1))

\* C23: the count stored for an attendee is the number of transcript entries
\* of that nick that are not commands.
C23_CountExcludesCommands ==
    \A k \in DOMAIN M.attendees :
        M.attendees[k][2] =
            Cardinality({i \in DOMAIN M.lines :
                            /\ IsLineOf(M.lines[i], M.attendees[k][1])
                            /\ ~IsCommandOf(M.lines[i], M.attendees[k][1])})

-----------------------------------------------------------------------------
(* Claims about the by-attendee action listing (SpecActions) *)

\* '#action bobby b', '#action BOB and Alice', '#action nobody'
l_actionBobby == <<"#", "a", "c", "t", "i", "o", "n", " ", "b", "o", "b", "b", "y", " ", "b">>
l_actionBoth ==
    <<"#", "a", "c", "t", "i", "o", "n", " ", "B", "O", "B", " ", "a", "n", "d", " ",
      "A", "l", "i", "c", "e">>
l_actionNobody == <<"#", "a", "c", "t", "i", "o", "n", " ", "n", "o", "b", "o", "d", "y">>

ActionLines == {l_action, l_actionBobby, l_actionBoth, l_actionNobody}

ActionSpeech == \E nick \in {bob, carol} : AddLine(nick, l_hello, FALSE, MaxActionLines)
ActionItem == \E line \in ActionLines : AddLine(alice, line, FALSE, MaxActionLines)
ActionSave == AddLine(alice, l_save, FALSE, MaxActionLines)

NextActions == ActionSpeech \/ ActionItem \/ ActionSave

SpecActions == Init /\ [][NextActions]_vars

\* the words of a text: its maximal runs of word characters
Words(text) ==
    {SubSeq(text, i, j) : i \in DOMAIN text, j \in DOMAIN text} \ {<<>>}
WordsOf(text) ==
    {w \in Words(text) :
        /\ \A k \in DOMAIN w : IsWord(w[k])
        /\ \E i \in 1..(Len(text) - Len(w) + 1) :
              /\ SubSeq(text, i, i + Len(w) - 1) = w
              /\ (i = 1 \/ ~IsWord(text[i - 1]))
              /\ (i + Len(w) - 1 = Len(text) \/ ~IsWord(text[i + Len(w)]))}
WholeWord(nick, text) == \E w \in WordsOf(text) : lower(w) = lower(nick)

\* the by-attendee block of the summary on disk: its groups of attendees
PersonGroups(S) ==
    SelectSeq(File(S, ".html").ActionItemsPerson, LAMBDA g : ~g.unassigned)
\* the texts of the Action items of S, in order
ActionTexts(S) ==
    LET a == SelectSeq(S.minutes, LAMBDA m : m.itemtype = "ACTION")
    IN [j \in DOMAIN a |-> a[j].line]

\* C24: in the by-attendee listing of a saved summary the items under an
\* attendee are the Action items whose text holds the nick as a whole word,
\* whatever the case of the letters, once each and in item order; an
\* attendee without such an item has no group, no group is of another name,
\* and an item that names two attendees is under both.
C24_ListedUnderNamedAttendee ==
    [][msg'.line = l_save =>
          /\ \A k \in DOMAIN PersonGroups(M') :
                /\ PersonGroups(M')[k].nick \in DictKeys(M'.attendees)
                /\ PersonGroups(M')[k].items # <<>>
                /\ \A k2 \in DOMAIN PersonGroups(M') :
                      PersonGroups(M')[k2].nick = PersonGroups(M')[k].nick => k2 = k
          /\ \A n \in DictKeys(M'.attendees) :
                LET named == SelectSeq(ActionTexts(M'), LAMBDA t : WholeWord(n, t))
                IN IF named = <<>>
                   THEN \A k \in DOMAIN PersonGroups(M') : PersonGroups(M')[k].nick # n
                   ELSE \E k \in DOMAIN PersonGroups(M') :
                           /\ PersonGroups(M')[k].nick = n
                           /\ PersonGroups(M')[k].items = named]_vars

\* bob spoke, alice assigned 'bobby b' and 'BOB and Alice' and saved: the
\* second item is under alice and under bob, the first under none
C24_Witness ==
    /\ msg.line = l_save
    /\ ActionTexts(M) = <<From(l_actionBobby, 9), From(l_actionBoth, 9)>>
    /\ PersonGroups(M) =
          <<[nick |-> alice, unassigned |-> FALSE, items |-> <<From(l_actionBoth, 9)>>],
            [nick |-> bob, unassigned |-> FALSE, items |-> <<From(l_actionBoth, 9)>>]>>

\* the items of the unassigned bucket of the summary on disk
UnassignedBucket(S) ==
    LET b == SelectSeq(File(S, ".html").ActionItemsPerson, LAMBDA g : g.unassigned)
    IN IF b = <<>> THEN <<>> ELSE b[1].items

\* C25: in the by-attendee section of a saved summary the unassigned bucket
\* holds every Action item whose text names no attendee, in item order, so
\* that no Action item is missing from the section.
C25_UnassignedBucketComplete ==
    [][msg'.line = l_save =>
          UnassignedBucket(M') =
              SelectSeq(ActionTexts(M'),
                        LAMBDA t : \A n \in DictKeys(M'.attendees) : ~WholeWord(n, t))]_vars

-----------------------------------------------------------------------------
(* Claims about the agenda groups of get_template (SpecTemplate) *)

l_topic2 == <<"#", "t", "o", "p", "i", "c", " ", "T", "2">>

\* a session of a configuration whose writer_map names the Template writer
InitTemplate ==
    /\ M = addline([Meeting(alice, meetbot, TRUE, s_old)
                       EXCEPT !.writers = <<".log.txt", s_template>>],
                   alice, l_startmeeting, FALSE, Now)
    /\ msg = Msg("channel", alice, l_startmeeting, FALSE)
    /\ pass = Idle
    /\ replay = NoReplay
    /\ meeting_cache = <<>>

TemplateLine ==
    \E nl \in {<<alice, l_topic>>, <<alice, l_topic2>>, <<bob, l_info>>,
               <<alice, l_subtopic>>, <<alice, l_save>>} :
        AddLine(nl[1], nl[2], FALSE, MaxTemplateLines)

SpecTemplate == InitTemplate /\ [][TemplateLine]_vars

\* the agenda groups of the template data on disk
Groups(S) == File(S, ".txt").MeetingItems
HasPrologue(S) == \E k \in DOMAIN Groups(S) : Groups(S)[k].topic = Prologue

\* the groups in order, each as its topic followed by its items, the null
\* topic left out
RECURSIVE Flatten(_)
Flatten(groups) ==
    IF groups = <<>> THEN <<>>
    ELSE (IF Head(groups).topic = Prologue THEN <<>> ELSE <<Head(groups).topic>>)
         \o Head(groups).items \o Flatten(Tail(groups))

\* every item is in one group, in item order: the groups read in order are
\* the minute items in order, a group starts with a Topic and holds no other
\* Topic, and only the first group can be the null topic
GroupsPartition(S) ==
    /\ Flatten(Groups(S)) = [i \in DOMAIN S.minutes |-> template(S.minutes[i])]
    /\ \A k \in DOMAIN Groups(S) :
          /\ Groups(S)[k].topic.itemtype = "TOPIC"
          /\ \A j \in DOMAIN Groups(S)[k].items : Groups(S)[k].items[j].itemtype # "TOPIC"
          /\ Groups(S)[k].topic = Prologue => k = 1

\* C26 as stated: the groups hold the null topic 'Prologue' exactly when an
\* item that is no Topic precedes the first Topic, and the groups partition
\* the items in order.
C26_PrologueIffLeadingItem ==
    [][msg'.line = l_save =>
          /\ HasPrologue(M') <=> (M'.minutes # <<>> /\ M'.minutes[1].itemtype # "TOPIC")
          /\ GroupsPartition(M')]_vars

\* C26: the groups hold the null topic 'Prologue' (blank nick), as their
\* first group, exactly when the first minute item is no Topic or there is
\* no minute item at all; every item is in exactly one group and the groups
\* and their items keep the item order.
C26_PrologueUnlessTopicFirst ==
    [][msg'.line = l_save =>
          /\ HasPrologue(M') <=> (M'.minutes = <<>> \/ M'.minutes[1].itemtype # "TOPIC")
          /\ HasPrologue(M') => Groups(M')[1].topic.nick = <<>>
          /\ GroupsPartition(M')]_vars

\* '#info x', '#topic T1', '#info x', '#save': the null topic with the first
\* item, then T1 with the second
C26_Witness ==
    /\ msg.line = l_save
    /\ Len(M.minutes) = 3
    /\ Groups(M) =
          <<[topic |-> Prologue, items |-> <<template(M.minutes[1])>>],
            [topic |-> template(M.minutes[2]), items |-> <<template(M.minutes[3])>>]>>
    /\ M.minutes[2].itemtype = "TOPIC"

-----------------------------------------------------------------------------
(* The plugin and its registry (plugin.py) *)

s_hashstartmeeting == <<"#">> \o s_startmeeting
s_hashreplay == <<"#">> \o s_replay
s_hashendmeeting == <<"#">> \o s_endmeeting
s_hashabortmeeting == <<"#">> \o s_abortmeeting

\* Meeting.process_meeting over the lines of the page
RECURSIVE process_meeting(_, _)
process_meeting_rest(S1, content) ==
    IF S1.raised # "none" THEN S1 ELSE process_meeting(S1, content)

process_meeting(S, content) ==
    IF content = <<>> THEN S
    ELSE process_meeting_rest(process_line(S, Head(content)), Tail(content))

\* the end of the '#replay' branch: a replayed meeting that is not over gets
\* the callbacks of the channel, one that is over leaves the registry
doPrivmsg_replayed(cache, Mkey, M1) ==
    IF M1.meetingIsOver THEN DictDel(cache, Mkey)
    ELSE DictSet(cache, Mkey, [M1 EXCEPT !.setTopic = TRUE])

\* the '#replay' branch of doPrivmsg with no session under the key.  The
\* Meeting is registered before the url is read, so the IndexError of
\* payload[7:].strip().split()[0] on a payload without url leaves it
\* registered.  The urls of the model hold no '/', which logfile_RE needs,
\* so channel and starttime stay as constructed.  content is the page at url.
doPrivmsg_replay(cache, Mkey, payload, content) ==
    IF strip(From(payload, 8)) = <<>>
    THEN DictSet(cache, Mkey, [Meeting(<<>>, <<>>, TRUE, s_old) EXCEPT !.setTopic = FALSE])
    ELSE doPrivmsg_replayed(cache, Mkey,
             process_meeting([Meeting(<<>>, <<>>, TRUE, s_old) EXCEPT !.setTopic = FALSE],
                             content))

\* the end of doPrivmsg as it would be if a session that is over stayed in
\* the registry
doPrivmsg_keepover(cache, Mkey, M1) == DictSet(cache, Mkey, M1)

\* "if M._meetingIsOver: del meeting_cache[Mkey]" after the line was added;
\* an exception of addline leaves doPrivmsg before it
doPrivmsg_added(cache, Mkey, M1) ==
    IF M1.raised = "none" /\ M1.meetingIsOver
    THEN DictDel(cache, Mkey) ELSE DictSet(cache, Mkey, M1)

\* the tail of doPrivmsg: "if not M or M._meetingIsOver: return", then the
\* line is added
doPrivmsg_addline(cache, Mkey, nick, frombot, payload, isop) ==
    IF ~DictHas(cache, Mkey) THEN cache
    ELSE IF DictGet(cache, Mkey, <<>>).meetingIsOver THEN cache
    ELSE doPrivmsg_added(cache, Mkey,
             IF frombot
             THEN addrawline(DictGet(cache, Mkey, <<>>), nick, payload, localtime)
             ELSE addline(DictGet(cache, Mkey, <<>>), nick, payload, isop, localtime))

\* "M.endmeeting(); del meeting_cache[Mkey]" for a session that is over
doPrivmsg_ended(cache, Mkey, ended) ==
    IF ended.raised # "none" THEN DictSet(cache, Mkey, ended) ELSE DictDel(cache, Mkey)

\* doPrivmsg as it would be if '#startmeeting' replaced a session there is
doPrivmsg_restart(cache, channel, network, nick, frombot, line, isop, content) ==
    doPrivmsg_addline(DictSet(cache, <<channel, network>>,
                              Meeting(nick, meetbot, TRUE, s_old)),
                      <<channel, network>>, nick, frombot, strip(line), isop)

\* MeetBot.doPrivmsg; frombot is "hellomouse/bin" in host
doPrivmsg(cache, channel, network, nick, frombot, line, isop, content) ==
    LET payload == strip(line)
        Mkey == <<channel, network>>
        has == DictHas(cache, Mkey)
        M0 == DictGet(cache, Mkey, Meeting(<<>>, <<>>, FALSE, <<>>))
        chair == has /\ (nick = M0.owner \/ DictHas(M0.chairs, nick) \/ isop)
        start == lower(Upto(payload, 13)) = s_hashstartmeeting
        again == /\ lower(Upto(payload, 11)) = s_hashendmeeting
                 /\ has /\ M0.meetingIsOver /\ chair
        abort == lower(Upto(payload, 13)) = s_hashabortmeeting /\ has /\ chair
    IN IF start /\ has THEN cache
       ELSE IF ~start /\ lower(Upto(payload, 7)) = s_hashreplay
       THEN IF has THEN cache ELSE doPrivmsg_replay(cache, Mkey, payload, content)
       ELSE IF ~start /\ again
       THEN doPrivmsg_ended(cache, Mkey, endmeeting(M0))
       ELSE IF ~start /\ abort THEN DictDel(cache, Mkey)
       ELSE doPrivmsg_addline(IF start
                              THEN DictSet(cache, Mkey, Meeting(nick, meetbot, TRUE, s_old))
                              ELSE cache,
                              Mkey, nick, frombot, payload, isop)

\* MeetBot.outFilter: a message of the bot is logged in the session of its
\* channel and network, when there is one
outFilter(cache, channel, network, line) ==
    IF DictHas(cache, <<channel, network>>)
    THEN DictSet(cache, <<channel, network>>,
                 addrawline(DictGet(cache, <<channel, network>>, <<>>), meetbot,
                            strip(line), localtime))
    ELSE cache

\* MeetBot.vote: "for key in meeting_cache.keys(): if channel == key[0]"
vote(cache, nick, ballot, channel) ==
    IF ballot_RE(ballot)
    THEN [i \in DOMAIN cache |->
             IF cache[i][1][1] = channel
             THEN <<cache[i][1], doCastVote(cache[i][2], nick, ballot, TRUE)>>
             ELSE cache[i]]
    ELSE cache

-----------------------------------------------------------------------------
(* Claims about the registry (SpecCache) *)

\* two networks with a channel of the same name, and a second channel
Mkeys == {<<"#c", "A">>, <<"#c", "B">>, <<"#d", "A">>}

l_replay == s_hashreplay \o <<" ", "u">>
l_abortmeeting == s_hashabortmeeting

\* the pages a replay reads: a meeting that is still open, and one that ended
Pages ==
    {<<LogLine(alice, l_startmeeting)>>,
     <<LogLine(alice, l_startmeeting), LogLine(alice, l_endmeeting)>>}

\* no session is followed on its own in the registry specification
NoMeeting == Meeting(<<>>, <<>>, FALSE, <<>>)

MsgAt(kind, nick, line, Mkey) ==
    [kind |-> kind, nick |-> nick, line |-> line, isop |-> FALSE,
     channel |-> Mkey[1], network |-> Mkey[2]]

InitCache ==
    /\ meeting_cache = <<>>
    /\ M = NoMeeting
    /\ msg = MsgAt("none", <<>>, <<>>, <<"", "">>)
    /\ pass = Idle
    /\ replay = NoReplay

RECURSIVE TotalLines(_)
TotalLines(cache) ==
    IF cache = <<>> THEN 0 ELSE Len(cache[1][2].lines) + TotalLines(Tail(cache))

\* the lines of the registry specification, each with the page a replay
\* reads and the number of transcript lines it can add
CacheInputs ==
    {<<nl[1], nl[2], <<>>, 1>> :
        nl \in {<<alice, l_startmeeting>>, <<bob, l_startmeeting>>, <<alice, l_vote>>,
                <<alice, l_endmeeting>>}}
    \cup {<<bob, l_replay, page, Len(page)>> : page \in Pages}

\* a line of a channel reaches doPrivmsg
CacheLine ==
    \E Mkey \in Mkeys, in \in CacheInputs :
        /\ TotalLines(meeting_cache) + in[4] < MaxCacheLines + 1
        /\ meeting_cache' = doPrivmsg(meeting_cache, Mkey[1], Mkey[2], in[1], FALSE,
                                      in[2], FALSE, in[3])
        /\ msg' = MsgAt("channel", in[1], in[2], Mkey)
        /\ UNCHANGED <<M, pass, replay>>

\* a message of the bot passes outFilter
CacheEcho ==
    /\ TotalLines(meeting_cache) < MaxCacheLines
    /\ \E Mkey \in Mkeys :
          /\ meeting_cache' = outFilter(meeting_cache, Mkey[1], Mkey[2], l_hello)
          /\ msg' = MsgAt("bot", meetbot, l_hello, Mkey)
    /\ UNCHANGED <<M, pass, replay>>

\* carol sends the bot of a network a ballot for a channel
CacheVote ==
    \E Mkey \in {<<"#c", "B">>, <<"#d", "A">>} :
        /\ meeting_cache' = vote(meeting_cache, carol, l_minus, Mkey[1])
        /\ msg' = MsgAt("private", carol, l_minus, Mkey)
        /\ UNCHANGED <<M, pass, replay>>

NextCache == CacheLine \/ CacheEcho \/ CacheVote

SpecCache == InitCache /\ [][NextCache]_vars

\* the session registered under a key, <<>> when there is none
Session(cache, Mkey) == DictGet(cache, Mkey, <<>>)

\* C27: a line, a bot message or a private ballot changes no session other
\* than the one of the channel and network it is addressed to.
C27_OtherSessionsUntouched ==
    [][\A Mkey \in Mkeys :
          Mkey # <<msg'.channel, msg'.network>>
              => Session(meeting_cache', Mkey) = Session(meeting_cache, Mkey)]_vars

\* C28: the registry holds one session for a key at most, and a start or
\* replay command for a key that has a session leaves the registry as it
\* is: no session is made and the one there is keeps owner, transcript,
\* items and vote state.
C28_OneSessionPerKey ==
    [][/\ \A i, j \in DOMAIN meeting_cache' :
             meeting_cache'[i][1] = meeting_cache'[j][1] => i = j
       /\ (/\ msg'.kind = "channel"
           /\ msg'.line \in {l_startmeeting, l_replay}
           /\ DictHas(meeting_cache, <<msg'.channel, msg'.network>>))
          => meeting_cache' = meeting_cache]_vars

\* alice started the session of <<"#c", "A">> and opened a round; bob then
\* sent '#startmeeting' there: alice is the owner and the round is open
C28_Witness ==
    /\ msg = MsgAt("channel", bob, l_startmeeting, <<"#c", "A">>)
    /\ DictHas(meeting_cache, <<"#c", "A">>)
    /\ Session(meeting_cache, <<"#c", "A">>).owner = alice
    /\ Session(meeting_cache, <<"#c", "A">>).activeVote = s_P
    /\ Session(meeting_cache, <<"#c", "A">>).lines =
          <<LogLine(alice, l_startmeeting), LogLine(alice, l_vote)>>

-----------------------------------------------------------------------------
(* Claims about the ballot carried by a line (SpecPayload) *)

\* most transcript entries of a session of SpecPayload beyond the first
MaxPayloadLines == 3

l_infoZero == <<"#", "i", "n", "f", "o", " ", "0">>
l_fooMinus == <<"#", "f", "o", "o", " ", "-", "1">>
l_endvotePlus == <<"#", "e", "n", "d", "v", "o", "t", "e", " ", "+", "1">>
l_votersZero == <<"#", "v", "o", "t", "e", "r", "s", " ", "0">>
l_plusTen == <<"+", "1", "0">>

\* lines whose payload is a ballot: speech, a chair's command, a command of
\* anyone, a command without a method; and lines whose payload is none: the
\* speech '+10', an implicit link
PayloadLines == {l_plus, l_agreed, l_infoZero, l_fooMinus, l_plusTen, l_url}

\* the owner opens and ends rounds and names the voters, with a ballot as
\* payload or without
PayloadChair ==
    \E line \in {l_vote, l_voters, l_endvotePlus, l_votersZero} :
        AddLine(alice, line, FALSE, MaxPayloadLines)
PayloadLine ==
    \E nick \in {alice, bob}, line \in PayloadLines :
        AddLine(nick, line, FALSE, MaxPayloadLines)

NextPayload == PayloadChair \/ PayloadLine

SpecPayload == Init /\ [][NextPayload]_vars

\* nick may vote in S
Eligible(S, nick) == S.voters = <<>> \/ DictHas(S.voters, nick)

\* the step registered payload as the public ballot of nick in the round
\* that is open in S
Registered(S, T, nick, payload) ==
    /\ DictGet(T.currentVote, nick, <<>>) = payload
    /\ DictGet(T.publicVoters, S.activeVote, <<>>) =
           Append(DictGet(S.publicVoters, S.activeVote, <<>>), nick)

\* the step left the public-cast list of the round that is open in S as it
\* was
NotRegistered(S, T) ==
    DictGet(T.publicVoters, S.activeVote, <<>>) =
        DictGet(S.publicVoters, S.activeVote, <<>>)

\* C29 as stated: while a round is open, a line of an eligible nick
\* registers a public ballot exactly when its payload matches the ballot
\* pattern.
C29_BallotIffPayloadMatches ==
    [][(M.activeVote # <<>> /\ Eligible(M, msg'.nick))
       => IF ballot_RE(PayloadOf(msg'.line))
          THEN Registered(M, M', msg'.nick, PayloadOf(msg'.line))
          ELSE NotRegistered(M, M')]_vars

\* C29: while a round is open, a line whose command has left the round open
\* and its nick eligible registers a public ballot exactly when its payload
\* matches the ballot pattern, whatever the line is: a known command, a
\* command without a method, an implicit link or speech; the item of the
\* command and the ballot are both made.
C29_BallotIffPayloadAfterCommand ==
    [][(M.activeVote # <<>> /\ M'.activeVote # <<>> /\ Eligible(M', msg'.nick))
       => IF ballot_RE(PayloadOf(msg'.line))
          THEN Registered(M, M', msg'.nick, PayloadOf(msg'.line))
          ELSE NotRegistered(M, M')]_vars

\* with round P open bob sent '#info 0': the item is in the minutes and the
\* ballot '0' of bob is registered
C29_Witness ==
    /\ msg = Msg("channel", bob, l_infoZero, FALSE)
    /\ M.lines = <<LogLine(alice, l_startmeeting), LogLine(alice, l_vote),
                   LogLine(bob, l_infoZero)>>
    /\ M.activeVote = s_P
    /\ Len(M.minutes) = 1
    /\ DictGet(M.currentVote, bob, <<>>) = l_zero
    /\ DictGet(M.publicVoters, s_P, <<>>) = <<bob>>

-----------------------------------------------------------------------------
(* Claims about the public-cast list (SpecRound) *)

\* the public-cast list of the round that is open in S, as T holds it
CastList(S, T) == DictGet(T.publicVoters, S.activeVote, <<>>)

\* the message is a ballot that doCastVote accepts in S
AcceptedCast(S, m) ==
    /\ S.activeVote # <<>>
    /\ Eligible(S, m.nick)
    /\ IF m.kind = "private" THEN ballot_RE(m.line)
       ELSE m.kind = "channel" /\ ballot_RE(PayloadOf(m.line))

\* C30: the public-cast list of a round is the sequence of the nicks of the
\* public casts accepted in it, in cast order and with repeats: it is empty
\* when the round opens, an accepted public cast appends its nick, and no
\* other step changes it while the round is open; an accepted private cast
\* makes the ballot the entry of its nick and leaves the list as it is.
C30_PublicCastList ==
    [][/\ (M.activeVote = <<>> /\ M'.activeVote # <<>>) => CastList(M', M') = <<>>
       /\ (M.activeVote # <<>> /\ M'.activeVote = M.activeVote)
          => IF AcceptedCast(M, msg') /\ (msg'.kind = "channel" => M'.lines # M.lines)
             THEN /\ DictGet(M'.currentVote, msg'.nick, <<>>) = PayloadOf(msg'.line)
                  /\ CastList(M, M') = (IF msg'.kind = "private" THEN CastList(M, M)
                                        ELSE Append(CastList(M, M), msg'.nick))
             ELSE CastList(M, M') = CastList(M, M)]_vars

\* bob voted twice in the channel and carol in private: the list names bob
\* twice and carol not, and the ballot map holds one ballot of each
C30_Witness ==
    /\ msg = Msg("private", carol, l_minus, FALSE)
    /\ M.lines = <<LogLine(alice, l_startmeeting), LogLine(alice, l_vote),
                   LogLine(bob, l_plus), LogLine(bob, l_plus)>>
    /\ M.activeVote = s_P
    /\ DictGet(M.publicVoters, s_P, <<>>) = <<bob, bob>>
    /\ DictGet(M.currentVote, bob, <<>>) = l_plus
    /\ DictGet(M.currentVote, carol, <<>>) = l_minus
    /\ Len(M.currentVote) = 2

-----------------------------------------------------------------------------
(* Claims about the end of a round (SpecVote) *)

\* the outcome a tally summary names
OutcomeOf(summary) ==
    IF summary.motion = "Motion carried" THEN s_Carried
    ELSE IF summary.motion = "Motion denied" THEN s_Denied
    ELSE s_Deadlock

\* the transcript entry of S with number n is the '#vote' line of a round on
\* proposal
IsVoteLineOf(S, n, proposal) ==
    /\ n \in DOMAIN S.lines
    /\ \E nick \in {alice, bob, carol} :
           S.lines[n] = LogLine(nick, <<"#">> \o s_vote \o <<" ">> \o proposal)

\* C31: '#endvote' by a chair while a round is open appends one VoteResult
\* item with the payload "<proposal> (<outcome>)", stores under the proposal
\* the tally of the ballot map with the number of the '#vote' line that
\* opened the round, and leaves no round open and the ballot map empty.
C31_EndVoteRecordsRound ==
    [][(/\ msg'.kind = "channel"
        /\ msg'.line = l_endvote
        /\ isChair(M, msg'.nick)
        /\ M.activeVote # <<>>
        /\ M'.lines # M.lines)
       => /\ Len(M'.minutes) = Len(M.minutes) + 1
          /\ SubSeq(M'.minutes, 1, Len(M.minutes)) = M.minutes
          /\ DictHas(M'.votes, M.activeVote)
          /\ LET stored == DictGet(M'.votes, M.activeVote, <<>>)
                 item == M'.minutes[Len(M'.minutes)]
             IN /\ item.itemtype = "VOTE"
                /\ item.line = M.activeVote \o <<" ", "(">> \o OutcomeOf(stored[1]) \o <<")">>
                /\ [vfor |-> stored[1].vfor, vagainst |-> stored[1].vagainst,
                    vabstain |-> stored[1].vabstain] = Tally(M.currentVote)
                /\ stored[2] = M.currentVoteStartLine
                /\ IsVoteLineOf(M, stored[2], M.activeVote)
          /\ M'.activeVote = <<>>
          /\ M'.currentVote = <<>>]_vars

\* alice set the margin, opened the round on P in line 3, bob and carol
\* voted and alice ended the round in line 6: the result is stored with 3
C31_Witness ==
    /\ msg = Msg("channel", alice, l_endvote, FALSE)
    /\ Len(M.lines) = 6
    /\ M.lines[3] = LogLine(alice, l_vote)
    /\ DictGet(M.votes, s_P, <<>>) =
           <<[motion |-> "Motion denied", vfor |-> 1, vagainst |-> 1, vabstain |-> 0], 3>>
    /\ M.minutes[Len(M.minutes)].line = Payload(s_Denied)
    /\ M.minutes[Len(M.minutes)].linenum = 6
    /\ M.activeVote = <<>>
    /\ M.currentVote = <<>>

-----------------------------------------------------------------------------
(* Claims about the end of a meeting with a round open (SpecEnd) *)

\* the owner opens and ends rounds and ends the meeting
EndChair ==
    \E line \in {l_vote, l_endvote, l_endmeeting} : AddLine(alice, line, FALSE, MaxEndLines)
\* ballots of the channel
EndBallot ==
    \E b \in {<<bob, l_plus>>, <<carol, l_minus>>} : AddLine(b[1], b[2], FALSE, MaxEndLines)
\* bob, no chair and then a channel operator, sends '#endmeeting'
EndGuest == \E isop \in BOOLEAN : AddLine(bob, l_endmeeting, isop, MaxEndLines)

NextEnd == EndChair \/ EndBallot \/ EndGuest

SpecEnd == Init /\ [][NextEnd]_vars

\* C32: '#endmeeting' by a chair while a round is open ends the round: the
\* VoteResult item and the tally of the round are recorded as '#endvote'
\* records them, the meeting is over, and no round is open in a meeting that
\* is over.
C32_EndMeetingEndsRound ==
    [][/\ (/\ msg'.kind = "channel"
           /\ msg'.line = l_endmeeting
           /\ (isChair(M, msg'.nick) \/ msg'.isop)
           /\ M.activeVote # <<>>
           /\ M'.lines # M.lines)
          => /\ M'.meetingIsOver
             /\ Len(M'.minutes) = Len(M.minutes) + 1
             /\ SubSeq(M'.minutes, 1, Len(M.minutes)) = M.minutes
             /\ DictHas(M'.votes, M.activeVote)
             /\ LET stored == DictGet(M'.votes, M.activeVote, <<>>)
                    item == M'.minutes[Len(M'.minutes)]
                IN /\ item.itemtype = "VOTE"
                   /\ item.line =
                          M.activeVote \o <<" ", "(">> \o OutcomeOf(stored[1]) \o <<")">>
                   /\ [vfor |-> stored[1].vfor, vagainst |-> stored[1].vagainst,
                       vabstain |-> stored[1].vabstain] = Tally(M.currentVote)
                   /\ stored[2] = M.currentVoteStartLine
       /\ M'.meetingIsOver => (M'.activeVote = <<>> /\ M'.currentVote = <<>>)]_vars

\* alice opened the round on P, bob and carol voted, and alice ended the
\* meeting: the round is stored with one for and one against, and is closed
C32_Witness ==
    /\ msg = Msg("channel", alice, l_endmeeting, FALSE)
    /\ M.lines = <<LogLine(alice, l_startmeeting), LogLine(alice, l_vote),
                   LogLine(bob, l_plus), LogLine(carol, l_minus),
                   LogLine(alice, l_endmeeting)>>
    /\ M.meetingIsOver
    /\ DictGet(M.votes, s_P, <<>>) =
           <<[motion |-> "Motion carried", vfor |-> 1, vagainst |-> 1, vabstain |-> 0], 2>>
    /\ Len(M.minutes) = 1
    /\ M.minutes[1].line = Payload(s_Carried)
    /\ M.activeVote = <<>>

-----------------------------------------------------------------------------
(* Claims about the nicks a roster command names (SpecRoster) *)

\* '#chair ,carol, bob,', '#voters carol,,meetbot', '#voters all carol',
\* '#nick meetbot ,bob'
l_chairCommas ==
    <<"#">> \o s_chair \o <<" ", ",">> \o carol \o <<",", " ">> \o bob \o <<",">>
l_votersBot == <<"#">> \o s_voters \o <<" ">> \o carol \o <<",", ",">> \o meetbot
l_votersAll == <<"#">> \o s_voters \o <<" ", "a", "l", "l", " ">> \o carol
l_nickBot == <<"#">> \o s_nick \o <<" ">> \o meetbot \o <<" ", ",">> \o bob

RosterLines == {l_chair, l_chairCommas, l_voters, l_votersBot, l_votersAll, l_nick, l_nickBot}

RosterChair == \E line \in RosterLines : AddLine(alice, line, FALSE, MaxRosterLines)
\* bob, who is no chair until he is named one, speaks and names nicks
RosterGuest ==
    \E line \in {l_hello, l_nick, l_chairCommas} : AddLine(bob, line, FALSE, MaxRosterLines)

NextRoster == RosterChair \/ RosterGuest

SpecRoster == Init /\ [][NextRoster]_vars

EveryoneWords ==
    {<<"e", "v", "e", "r", "y", "o", "n", "e">>,
     <<"e", "v", "e", "r", "y", "b", "o", "d", "y">>, <<"a", "l", "l">>}

\* the line is '#chair', '#voters' or '#nick' with a payload
IsRoster(line) ==
    command_RE(line) /\ lower(CommandName(line)) \in {s_chair, s_voters, s_nick}

\* the nicks a roster line names: the tokens of its payload that are not
\* empty and are no word for everyone
Named(line) ==
    {t \in Range(resplit(CommandPayload(line))) : t # <<>> /\ t \notin EveryoneWords}

\* the nicks the handler of a roster line reaches: for '#voters', those in
\* front of the first word for everyone
Reached(line) ==
    LET toks == resplit(CommandPayload(line))
    IN {toks[i] : i \in {j \in DOMAIN toks :
                           /\ toks[j] # <<>>
                           /\ toks[j] \notin EveryoneWords
                           /\ lower(CommandName(line)) = s_voters
                                  => \A k \in 1..j : toks[k] \notin EveryoneWords}}

\* the sender of the line may use the command: '#nick' is for anyone
MayName(S, m) ==
    lower(CommandName(m.line)) = s_nick \/ isChair(S, m.nick) \/ m.isop

Count(S, nick) == DictGet(S.attendees, nick, 0 - 1)

\* what a roster line does to the attendees when the nicks it registers are
\* those of names
RosterEffect(names) ==
    /\ \A k \in DictKeys(M.attendees) :
           Count(M', k) = Count(M, k) + (IF k = msg'.nick THEN 1 ELSE 0)
    /\ \A k \in names \ (DictKeys(M.attendees) \cup {msg'.nick}) : Count(M', k) = 0
    /\ DictKeys(M'.attendees) = DictKeys(M.attendees) \cup {msg'.nick} \cup names
    /\ <<>> \notin DictKeys(M'.chairs) \cup DictKeys(M'.voters)

-----------------------------------------------------------------------------
(* Claims about raw lines (SpecRaw) *)

\* raw lines shaped like chair commands, an item command, a link, a ballot
\* and a /me line
RawLines == {l_endvote, l_chair, l_topic, l_info, l_url, l_plus, l_me}

\* the owner opens a round and sets a topic
RawChair == \E line \in {l_vote, l_topic2} : AddLine(alice, line, FALSE, MaxRawLines)
\* MeetBot.outFilter: the bot says a line in the channel
RawEcho == \E line \in RawLines : AddRawLine(line, MaxRawLines)
\* MeetBot.doPrivmsg for a host with "hellomouse/bin": the line of the nick,
\* here the owner, is added with addrawline
RawTrusted ==
    /\ ~M.meetingIsOver
    /\ Len(M.lines) < MaxRawLines + 1
    /\ \E line \in RawLines :
           /\ M' = addrawline(M, alice, line, Now)
           /\ msg' = Msg("raw", alice, line, FALSE)
    /\ UNCHANGED <<pass, replay, meeting_cache>>

NextRaw == RawChair \/ RawEcho \/ RawTrusted

SpecRaw == Init /\ [][NextRaw]_vars

\* the transcript entry addrawline makes of a line
RawEntry(nick, line) ==
    IF Upto(line, 6) = s_ACTION
    THEN strftime(Now) \o <<" ", "*", " ">> \o nick \o <<" ">> \o lstrip(From(line, 8))
    ELSE LogLine(nick, line)

\* C34: addrawline appends one transcript entry and interprets nothing:
\* whatever the text is, it adds no minute item and changes no chairs, no
\* voters, no topic, no vote state and no other attribute than the transcript
\* and the attendee count of the nick.
C34_RawLineNotInterpreted ==
    [][msg'.kind \in {"bot", "raw"}
       => /\ M'.lines = Append(M.lines, RawEntry(msg'.nick, msg'.line))
          /\ M'.minutes = M.minutes
          /\ Beside(M') = Beside(M)
          /\ Round(M') = Round(M)
          /\ \A k \in DictKeys(M.attendees) :
                 k # msg'.nick => Count(M', k) = Count(M, k)]_vars

\* with the round on P open, the bot said '+1' and then alice's line
\* '#endvote' came from a trusted host: the round is open with no ballot
C34_Witness ==
    /\ msg = Msg("raw", alice, l_endvote, FALSE)
    /\ M.lines = <<LogLine(alice, l_startmeeting), LogLine(alice, l_vote),
                   LogLine(meetbot, l_plus), LogLine(alice, l_endvote)>>
    /\ M.activeVote = s_P
    /\ M.currentVote = <<>>
    /\ M.minutes = <<>>
    /\ M.votes = <<>>

-----------------------------------------------------------------------------
(* Claims about the lines a replay submits (SpecTwice) *)

\* alice said '10:01 * bob waves'
l_quoted == <<"1", "0", ":", "0", "1", " ", "*", " ">> \o bob \o <<" ", "w", "a", "v", "e", "s">>

\* lines of a raw log: a spoken command, a /me line, a line of neither
\* grammar, and a spoken line whose text has the shape of a /me line
TwiceLines ==
    {LogLine(bob, l_info),
     addrawline(Meeting(alice, meetbot, TRUE, s_old), bob, l_me, Now).lines[1],
     l_hello,
     LogLine(alice, l_quoted)}

TwiceContents ==
    {<<LogLine(alice, l_startmeeting)>> \o c :
        c \in UNION {[1..k -> TwiceLines] : k \in 0..MaxTwice}}

InitTwice ==
    /\ M = [Meeting(<<>>, <<>>, TRUE, s_old) EXCEPT !.setTopic = FALSE]
    /\ msg = Msg("channel", alice, l_replay, FALSE)
    /\ pass = Idle
    /\ replay \in {[content |-> c, pos |-> 0] : c \in TwiceContents}
    /\ meeting_cache = <<>>

SpecTwice == InitTwice /\ [][ReplayLine]_vars

\* C35: each line of the replayed transcript that matches the spoken-line
\* grammar or the /me grammar adds one transcript entry, and a line that
\* matches neither adds none.
C35_OneEntryPerInputLine ==
    [][replay'.pos = replay.pos + 1
       => Len(M'.lines) =
              Len(M.lines)
              + (IF \/ logline_RE(replay.content[replay'.pos]).ok
                    \/ loglineAction_RE(replay.content[replay'.pos]).ok
                 THEN 1 ELSE 0)]_vars

-----------------------------------------------------------------------------
(* Claims about the proposal of a round (SpecProposal) *)

\* '#vote +1 now' and '#vote 0': proposals with the shape of a ballot
l_votePlus == <<"#">> \o s_vote \o <<" ", "+", "1", " ", "n", "o", "w">>
l_voteZero == <<"#">> \o s_vote \o <<" ", "0">>

ProposalChair ==
    \E line \in {l_vote, l_votePlus, l_voteZero, l_endvote} :
        AddLine(alice, line, FALSE, MaxProposalLines)
ProposalBallot ==
    \E b \in {<<bob, l_plus>>, <<carol, l_minus>>} :
        AddLine(b[1], b[2], FALSE, MaxProposalLines)

NextProposal == ProposalChair \/ ProposalBallot

SpecProposal == Init /\ [][NextProposal]_vars

\* C36: when a '#vote' line has opened a round, the ballot map and the
\* public-cast list of the round are empty, whatever the proposal is.
C36_RoundOpensEmpty ==
    [][(/\ msg'.kind = "channel"
        /\ lower(CommandName(msg'.line)) = s_vote
        /\ M.activeVote = <<>>
        /\ M'.activeVote # <<>>)
       => /\ M'.currentVote = <<>>
          /\ CastList(M', M') = <<>>]_vars

-----------------------------------------------------------------------------
(* Claims about the stored results of several rounds (SpecAgain) *)

\* the owner opens rounds on P and on Q, more than once, and ends them
AgainChair ==
    \E line \in {l_vote, l_voteQ, l_endvote} : AddLine(alice, line, FALSE, MaxAgainLines)
AgainBallot ==
    \E b \in {<<bob, l_plus>>, <<carol, l_minus>>} :
        AddLine(b[1], b[2], FALSE, MaxAgainLines)

NextAgain == AgainChair \/ AgainBallot

SpecAgain == Init /\ [][NextAgain]_vars

\* the rounds ended so far: each end added one VoteResult item
RoundsEnded(S) == Cardinality({i \in DOMAIN S.minutes : S.minutes[i].itemtype = "VOTE"})

\* C37: every round that was ended keeps its stored result: there are as
\* many stored tally summaries as rounds ended, in the order the rounds were
\* opened, and a '#vote' or '#endvote' line changes neither the summary, nor
\* the opening line number, nor the public-cast list of a round that was
\* ended before, the proposal of the later round being the same or not.
C37_EveryRoundKeepsItsResult ==
    [][/\ Len(M'.votes) = RoundsEnded(M')
       /\ \A i, j \in DOMAIN M'.votes : i < j => M'.votes[i][2][2] < M'.votes[j][2][2]
       /\ (msg'.kind = "channel" /\ msg'.line \in {l_vote, l_voteQ, l_endvote})
          => \A p \in DictKeys(M.votes) :
                 /\ DictGet(M'.votes, p, <<>>) = DictGet(M.votes, p, <<>>)
                 /\ DictGet(M'.publicVoters, p, <<>>) = DictGet(M.publicVoters, p, <<>>)]_vars

-----------------------------------------------------------------------------
(* Claims about the replay of the raw log of a live session (SpecLive) *)

\* the owner adds an item and runs a round
LiveOwner ==
    \E line \in {l_info, l_vote, l_endvote} : AddLine(alice, line, FALSE, MaxLiveLines)
\* bob votes, and tries a chair command without being a chair
LiveGuest == \E line \in {l_plus, l_topic} : AddLine(bob, line, FALSE, MaxLiveLines)
\* bob, a channel operator, sends a chair command
LiveOp == AddLine(bob, l_topic, TRUE, MaxLiveLines)
\* the bot says a line in the channel
LiveEcho == AddRawLine(l_hello, MaxLiveLines)

NextLive == LiveOwner \/ LiveGuest \/ LiveOp \/ LiveEcho

SpecLive == Init /\ [][NextLive]_vars

\* the session '#replay' builds from a raw log
Replayed(lines) ==
    process_meeting([Meeting(<<>>, <<>>, TRUE, s_old) EXCEPT !.setTopic = FALSE], lines)

\* C38: the replay of the raw log a live session wrote has the minute items
\* of the live session, in order, and its stored tallies and outcomes.
C38_ReplayReconstructs ==
    /\ Replayed(File(M, ".log.txt")).minutes = M.minutes
    /\ Replayed(File(M, ".log.txt")).votes = M.votes

-----------------------------------------------------------------------------
(* Claims about the topic of the channel at the end (SpecTopic) *)

\* the owner sets topics, lurks, stops lurking and ends the meeting
TopicChair ==
    \E line \in {l_topic, l_topic2, l_lurk, l_unlurk, l_endmeeting} :
        AddLine(alice, line, FALSE, MaxTopicLines)
\* bob, no chair, tries the same
TopicGuest == \E line \in {l_topic, l_lurk} : AddLine(bob, line, FALSE, MaxTopicLines)

NextTopic == TopicChair \/ TopicGuest

SpecTopic == Init /\ [][NextTopic]_vars

\* C39: once a chair has ended the meeting, the topic of the channel is the
\* topic that was in place before the meeting, whatever topic, lurk and
\* unlurk commands came before the end.
C39_TopicRestoredAtEnd == M.meetingIsOver => M.irc_topic = M.oldtopic

-----------------------------------------------------------------------------
(* Claims about the sessions that leave the registry (SpecEvict) *)

\* two channels of one network
EvictKeys == {<<"#c", "A">>, <<"#d", "A">>}

\* the lines of the specification, as in CacheInputs
EvictInputs ==
    {<<nl[1], nl[2], <<>>, 1>> :
        nl \in {<<alice, l_startmeeting>>, <<bob, l_startmeeting>>, <<bob, l_hello>>,
                <<alice, l_endmeeting>>, <<bob, l_endmeeting>>,
                <<alice, l_abortmeeting>>, <<bob, l_abortmeeting>>}}
    \cup {<<bob, l_replay, page, Len(page)>> : page \in Pages}

\* a line of a channel reaches doPrivmsg
EvictLine ==
    \E Mkey \in EvictKeys, in \in EvictInputs :
        /\ TotalLines(meeting_cache) + in[4] < MaxEvictLines + 1
        /\ meeting_cache' = doPrivmsg(meeting_cache, Mkey[1], Mkey[2], in[1], FALSE,
                                      in[2], FALSE, in[3])
        /\ msg' = MsgAt("channel", in[1], in[2], Mkey)
        /\ UNCHANGED <<M, pass, replay>>

SpecEvict == InitCache /\ [][EvictLine]_vars

\* the key a message is addressed to
KeyOf(m) == <<m.channel, m.network>>

\* C40: after a line of a channel is processed, with every save succeeding,
\* no session of the registry is over; the session of the key leaves the
\* registry in the step in which a chair ends it or aborts it, a replay that
\* reads a page with an '#endmeeting' leaves no session, and '#startmeeting'
\* on a key whose session has just left the registry makes a new session
\* there, owned by the sender.
C40_OverSessionsEvicted ==
    [][/\ \A i \in DOMAIN meeting_cache' : ~meeting_cache'[i][2].meetingIsOver
       /\ (/\ msg'.kind = "channel"
           /\ msg'.line \in {l_endmeeting, l_abortmeeting}
           /\ DictHas(meeting_cache, KeyOf(msg'))
           /\ isChair([Session(meeting_cache, KeyOf(msg')) EXCEPT !.isop = FALSE],
                      msg'.nick))
          => ~DictHas(meeting_cache', KeyOf(msg'))
       /\ (/\ msg'.kind = "channel"
           /\ msg'.line = l_replay
           /\ ~DictHas(meeting_cache, KeyOf(msg'))
           /\ DictHas(meeting_cache', KeyOf(msg')))
          => /\ Session(meeting_cache', KeyOf(msg')).owner = alice
             /\ Len(Session(meeting_cache', KeyOf(msg')).lines) = 1
       /\ \A Mkey \in EvictKeys :
             (DictHas(meeting_cache, Mkey) /\ ~DictHas(meeting_cache', Mkey))
                 => /\ msg'.line \in {l_endmeeting, l_abortmeeting}
                    /\ Session(doPrivmsg(meeting_cache', Mkey[1], Mkey[2], bob, FALSE,
                                         l_startmeeting, FALSE, <<>>), Mkey).owner = bob
      ]_vars

\* alice ended the session of <<"#c", "A">>, which left the registry, while
\* the session of <<"#d", "A">> stays
C40_Witness ==
    /\ msg = MsgAt("channel", alice, l_endmeeting, <<"#c", "A">>)
    /\ ~DictHas(meeting_cache, <<"#c", "A">>)
    /\ DictHas(meeting_cache, <<"#d", "A">>)
    /\ ~Session(meeting_cache, <<"#d", "A">>).meetingIsOver

====
